---- MODULE Spec2Model ----
(***************************************************************************)
(* Verification model of CombinedChatOverlay: the merge and retention      *)
(* store (chatStore), the polling adapter (YouTubeService) with the        *)
(* cursor handling of its backend (/api/youtube-chat), the adapter         *)
(* start-up in ChatContainer, and the adaptive polling of the earlier      *)
(* YouTubeService.                                                         *)
(*                                                                         *)
(* A chat message is a record [id, ts, c]: its id, the getTime() of its    *)
(* timestamp (a valid Date) and its content.                               *)
(***************************************************************************)
EXTENDS Integers, Sequences, FiniteSets, TLC

(***************************************************************************)
(* Bounds of the model.                                                    *)
(***************************************************************************)
MaxId == 2
MaxTs == 3
MaxBatch == 2
MaxOps == 3
MaxConfigs == 2
MaxLegacySteps == 4
MaxLegacyInflight == 2
MaxKickSteps == 4

(***************************************************************************)
(* Program constants.                                                      *)
(***************************************************************************)
RetentionSize == 100
maxRetries == 5

VARIABLES
    messages,           \* chatStore.messages: the stored array
    connectionStatus,   \* chatStore.connectionStatus: platform -> BOOLEAN
    ops,                \* number of store calls made so far
    redelivered,        \* the ids the last store call delivered that were stored already,
                        \* each with the content delivered last under it
    dropped             \* number of entries the last store call cut off the window

storeVars == <<messages, connectionStatus, ops, redelivered, dropped>>

\* the polling adapter, one YouTubeService instance
VARIABLES
    ytPhase,            \* "new", "connecting" (connect() awaits the bootstrap response),
                        \* "resolved" or "rejected" (how connect() settled)
    ytVideoId,          \* this.videoId, "" when empty
    ytContinuation,     \* this.continuation, "" when empty
    ytPollInterval,     \* this.pollInterval: the timer handle disconnect() clears
    ytPollingIntervalMs,\* this.pollingIntervalMs
    ytIsActive,         \* this.isActive
    ytLastError,        \* this.lastError
    ytRetryCount,       \* this.retryCount
    ytTimers,           \* pending setTimeout callbacks of scheduleNextPoll
    ytInflight,         \* requests to /api/youtube-chat awaiting their response
    ytDisconnected,     \* disconnect() has returned
    ytConsecFails,      \* failed polls in a row since connect(), disconnect() or a successful poll
    ytLastReturned,     \* the cursor live_chat/get_live_chat returned last ("" before the first)
    ytUpstream,         \* the last poll the backend handled: the cursor it received and
                        \* the cursor it passed to live_chat/get_live_chat
    ytPolledAfterDisc   \* a poll request was issued after disconnect() returned

ytVars == <<ytPhase, ytVideoId, ytContinuation, ytPollInterval, ytPollingIntervalMs,
            ytIsActive, ytLastError, ytRetryCount, ytTimers, ytInflight, ytDisconnected,
            ytConsecFails, ytLastReturned, ytUpstream, ytPolledAfterDisc>>

Platforms == {"twitch", "kick", "youtube"}

\* ChatContainer: the subscriber of channelConfig and the services it starts
VARIABLES
    ccTwitchEnv,        \* VITE_TWITCH_CLIENT_ID and VITE_TWITCH_OAUTH_TOKEN are both set
    ccRuns,             \* the calls of the subscriber: the config of each and the
                        \* platform whose connect() it awaits ("done" once it returned)
    ccAdapters,         \* per call and platform, the service the call created:
                        \* "none", "connecting", "connected", "failed", "disconnected"
    ccServices          \* the services array: <<call, platform>> of each service in it

ccVars == <<ccTwitchEnv, ccRuns, ccAdapters, ccServices>>

\* The adaptive polling of the API-key YouTube service
VARIABLES
    lgPollingIntervalMs,        \* pollingIntervalMs, in thousandths of a millisecond
    lgConsecutiveEmptyPolls,    \* consecutiveEmptyPolls
    lgHourlyQuotaUsed,          \* hourlyQuotaUsed
    lgIsActive,                 \* isActive
    lgHidden,                   \* document.hidden
    lgTimer,                    \* the timers armed by scheduleNextPoll: 0 or 1
    lgInflight,                 \* the liveChat/messages requests that have not returned
    lgSteps,                    \* the responses and visibility changes handled so far
    lgEvent,                    \* history: what the last handler dealt with
    lgPrevIntervalMs            \* history: pollingIntervalMs when that handler began

lgVars == <<lgPollingIntervalMs, lgConsecutiveEmptyPolls, lgHourlyQuotaUsed, lgIsActive, lgHidden,
            lgTimer, lgInflight, lgSteps, lgEvent, lgPrevIntervalMs>>

\* The backend of the polling adapter
VARIABLES
    beVariant,              \* which of the two handlers of the repository serves
    beYoutubeInstances,     \* youtubeInstances has the entry 'default'
    beLiveChatInstances,    \* the video info cached in liveChatInstances, or NoInfo
    beRequest,              \* the body of the request being answered, or NoRequest
    beResponse,             \* the response to it
    beActions,              \* history: the chat actions the upstream call returned
    beUpstream              \* history: the continuation given to the upstream call

beVars == <<beVariant, beYoutubeInstances, beLiveChatInstances, beRequest, beResponse,
            beActions, beUpstream>>

\* The Kick service (Pusher socket)
VARIABLES
    kkPhase,            \* connect(): "new", "lookup", "socket", "resolved", "rejected"
    kkChatroomId,       \* chatroomId, 0 for null
    kkWs,               \* the socket: "none", "connecting", "open", "closed"
    kkTimer,            \* the 2 s timer of connect() is pending
    kkFrames,           \* the subscribe frames sent
    kkSteps,            \* the socket events handled so far
    kkDisconnected      \* disconnect() has been called

kkVars == <<kkPhase, kkChatroomId, kkWs, kkTimer, kkFrames, kkSteps, kkDisconnected>>

\* The chat message component: one call of parseMessageWithMentions
VARIABLES
    rnText,             \* messageText, a sequence of characters
    rnEmotes,           \* emotes, each with name, url and positions[0] = [start, end]
    rnLinkRanges,       \* linkRanges, as found in the text
    rnMentionRanges,    \* mentionRanges, as found in the text
    rnAllRanges,        \* allRanges after the sort
    rnResult,           \* the pieces of the string returned, in order
    rnDone              \* the call has returned

rnVars == <<rnText, rnEmotes, rnLinkRanges, rnMentionRanges, rnAllRanges, rnResult, rnDone>>

\* The Twitch service: one call of parsePrivMsg
VARIABLES
    ircLine,            \* the IRC line, a sequence of characters
    ircMessage,         \* the ChatMessage returned, or NoMessage for null
    ircDone             \* the call has returned

ircVars == <<ircLine, ircMessage, ircDone>>

\* The color of a username: the calls of generateDefaultColor (Twitch
\* service) and generateUserColor (message component) for one name
VARIABLES
    colName,            \* the username, a sequence of characters
    colCalls            \* history: the function, index and color of each call

colVars == <<colName, colCalls>>

\* One call of addMessage or addMessages, statement by statement, and a
\* reader of the store
VARIABLES
    stPc,               \* "idle", "merged" / "filtered", "updated", "sorted", "returned"
    stCall,             \* the call: its kind and the messages it delivers
    stLocal,            \* the array the update callback works on
    stBefore,           \* history: the stored array when the call began
    stEvicted,          \* history: the entries slice(-100) cut off
    stObserved,         \* the view the reader saw last
    stObservedAt        \* history: stPc when the reader saw it

stVars == <<stPc, stCall, stLocal, stBefore, stEvicted, stObserved, stObservedAt>>

\* The IRC adapter (TwitchService): its socket, the promise connect()
\* returns and the server at the other end
VARIABLES
    twUsername,         \* this.username, the nick the adapter logs in with
    twWs,               \* this.ws: "null" or "socket"
    twReady,            \* readyState of the socket created last
    twPromise,          \* "none", "pending", "resolved", "rejected"
    twTimer,            \* the 2000 ms timer of connect() is pending
    twSent,             \* the lines the adapter has sent on the socket
    twServer,           \* what the server has done: "none", "registered", "joined"
    twEvents,           \* the number of events handled
    twEvent,            \* history: the handler that ran last
    twData,             \* history: the lines handled last
    twPushed,           \* history: the calls of addMessage for each of these lines
    twUserNotices,      \* handleMessage is the one with the USERNOTICE branch
    twConfirmed         \* history: a join confirmation was handled on this socket

twVars == <<twUsername, twWs, twReady, twPromise, twTimer, twSent, twServer, twEvents,
            twEvent, twData, twConfirmed, twPushed, twUserNotices>>

\* The requests the adapters make for bootstrap and polling
VARIABLES
    ftState,            \* per call site: "idle", "pending", "answered", "failed"
    ftTimer,            \* per call site: the abort timer of the request is armed
    ftAborted           \* per call site: the request ended by controller.abort()

ftVars == <<ftState, ftTimer, ftAborted>>

\* The Twitch service that loads community emotes: the emote part of one
\* call of parsePrivMsg
VARIABLES
    emMessage,          \* message, a sequence of characters
    emTag,              \* tags.emotes after the splits: entries of id and ranges
    emEmoteMap,         \* this.emoteMap: the 7TV emote codes
    emBttvEmoteMap,     \* this.bttvEmoteMap: the BTTV emote codes
    emEmotes,           \* emotes, each with name, platform and positions[0] = [start, end]
    emDone              \* the call has returned

emVars == <<emMessage, emTag, emEmoteMap, emBttvEmoteMap, emEmotes, emDone>>

restVars == <<rnVars, ircVars, colVars, stVars, twVars, ftVars, emVars>>

(***************************************************************************)
(* Inputs of the store. A call delivers messages of any id and timestamp;  *)
(* the content of a delivered message is the serial number of its          *)
(* delivery (call number and position in the batch), so that a             *)
(* re-delivered id always carries a content different from the stored one. *)
(***************************************************************************)
Ids == 1..MaxId
Tss == 1..MaxTs
Shape == [id : Ids, ts : Tss]

\* a long batch of fresh ids, all of one timestamp
BulkLen == 99
BulkTs == 2
Bulk == [i \in 1..BulkLen |-> [id |-> 100 + i, ts |-> BulkTs]]

SeqsUpTo(S, n) == UNION {[1..k -> S] : k \in 1..n}
Batches == SeqsUpTo(Shape, MaxBatch) \cup {Bulk}

Serial(k, i) == 1000 * k + i
Stamp(b, k) == [i \in 1..Len(b) |-> [id |-> b[i].id, ts |-> b[i].ts, c |-> Serial(k, i)]]

(***************************************************************************)
(* Array helpers.                                                          *)
(***************************************************************************)
IdsOf(s) == {s[i].id : i \in 1..Len(s)}

\* Array.prototype.slice(-n): the last n elements
SliceLast(s, n) == IF Len(s) <= n THEN s ELSE SubSeq(s, Len(s) - n + 1, Len(s))

\* Array.prototype.filter(m => m.id !== id)
FilterOutId(s, id) == SelectSeq(s, LAMBDA m : m.id # id)

\* the comparator of both sorts: a.timestamp.getTime() - b.timestamp.getTime()
CompareTs(a, b) == a.ts - b.ts

\* Array.prototype.sort with CompareTs: a stable sort. The elements that
\* compare greater than no other element come first, in their original
\* order, then the rest sorted in the same way.
RECURSIVE SortByTs(_)
SortByTsNone(s) == s

SortByTs(s) ==
    IF s = <<>> THEN <<>>
    ELSE LET keys == {[ts |-> s[i].ts] : i \in 1..Len(s)}
             low == CHOOSE k \in keys : \A k2 \in keys : CompareTs(k, k2) <= 0
             least(e) == CompareTs(e, low) <= 0
         IN SelectSeq(s, least) \o SortByTs(SelectSeq(s, LAMBDA e : ~least(e)))

\* Array.from(merged.reduce((map, msg) => map.set(msg.id, msg), new Map()), ...):
\* the Map keeps its keys in the order of their first insertion, and every
\* key holds the value set last
DedupByIdKeepFirst(s) ==
    SelectSeq([i \in 1..Len(s) |-> IF s[i].id \in {s[j].id : j \in 1..(i - 1)}
                                   THEN [id |-> 0, ts |-> 0, c |-> 0] ELSE s[i]],
              LAMBDA m : m.id # 0)

DedupById(s) ==
    LET n == Len(s)
        first(i) == s[i].id \notin {s[j].id : j \in 1..(i - 1)}
        lastOf(i) == CHOOSE j \in i..n :
                        /\ s[j].id = s[i].id
                        /\ s[i].id \notin {s[k].id : k \in (j + 1)..n}
        keys == SelectSeq([i \in 1..n |-> i], first)
    IN [k \in 1..Len(keys) |-> s[lastOf(keys[k])]]

(***************************************************************************)
(* chatStore.addMessages and chatStore.addMessage as functions of the      *)
(* stored array.                                                           *)
(***************************************************************************)
RetainFirst(s, n) == SubSeq(s, 1, IF Len(s) <= n THEN Len(s) ELSE n)
Retain(s, n) == SliceLast(s, n)

AddMessagesFn(msgs, newMessages) ==
    Retain(SortByTs(DedupById(msgs \o newMessages)), RetentionSize)

AddMessageFn(msgs, message) ==
    Retain(SortByTs(Append(FilterOutId(msgs, message.id), message)), RetentionSize)

\* derived store recentMessages
recentMessages == SliceLast(messages, RetentionSize)

(***************************************************************************)
(* The store on its own.                                                   *)
(***************************************************************************)
StoreInit ==
    /\ messages = <<>>
    /\ connectionStatus = [p \in Platforms |-> FALSE]
    /\ ops = 0
    /\ redelivered = {}
    /\ dropped = 0

WithId(s, id) == SelectSeq(s, LAMBDA m : m.id = id)

\* the message of the batch b that was delivered last under the id
LastWithId(b, id) == LET w == WithId(b, id) IN w[Len(w)]

Redelivered(msgs, b) ==
    {[id |-> id, c |-> LastWithId(b, id).c] : id \in IdsOf(b) \cap IdsOf(msgs)}

addMessage(message) ==
    /\ ops < MaxOps
    /\ messages' = AddMessageFn(messages, message)
    /\ redelivered' = Redelivered(messages, <<message>>)
    /\ dropped' = Len(FilterOutId(messages, message.id)) + 1 - Len(messages')
    /\ ops' = ops + 1
    /\ UNCHANGED <<restVars, connectionStatus, ytVars, ccVars, lgVars, beVars, kkVars>>

addMessages(newMessages) ==
    /\ ops < MaxOps
    /\ messages' = AddMessagesFn(messages, newMessages)
    /\ redelivered' = Redelivered(messages, newMessages)
    /\ dropped' = Cardinality(IdsOf(messages \o newMessages)) - Len(messages')
    /\ ops' = ops + 1
    /\ UNCHANGED <<restVars, connectionStatus, ytVars, ccVars, lgVars, beVars, kkVars>>

StoreAddMessage == \E m \in Shape : addMessage(Stamp(<<m>>, ops + 1)[1])

StoreAddMessages == \E b \in Batches : addMessages(Stamp(b, ops + 1))

(***************************************************************************)
(* The polling adapter (YouTubeService) and the cursor handling of its     *)
(* backend (POST /api/youtube-chat). The emote map and the call counter    *)
(* of the adapter take no part in its control flow and are left out.       *)
(***************************************************************************)
NULL == "null"
Cursors == {"c1", "c2", "c3"}
RandomIds == {901, 902}

\* the chat items live_chat/get_live_chat answers for a cursor: renderer.id
\* (0 when the item carries none), timestampUsec and the item itself
UpstreamBatch(cont) ==
    CASE cont = "c1" -> <<[rid |-> 11, ts |-> 2, key |-> 1], [rid |-> 0, ts |-> 1, key |-> 2]>>
      [] cont = "c2" -> <<[rid |-> 13, ts |-> 3, key |-> 3]>>
      [] OTHER -> <<>>

\* id: `youtube-${renderer.id || Math.random().toString(36).substr(2, 9)}`
MessageId(item, rnd) == IF item.rid # 0 THEN item.rid ELSE rnd

\* extractMinimalChatMessages over the items, rnd[i] the random draw for item i;
\* pollMessages then turns every timestamp into a Date
DecodeBatch(items, rnd) ==
    [i \in 1..Len(items) |->
        [id |-> MessageId(items[i], rnd[i]), ts |-> items[i].ts, c |-> items[i].key]]

\* POST: the cursor given to live_chat/get_live_chat is the request's
\* continuation when it has one, the initial continuation of the video otherwise
BackendUpstreamCont(cont, initial) == IF cont # "" THEN cont ELSE initial

\* POST: newContinuation = chatData.continuation?.token || cont
BackendNewContinuation(token, cont) == IF token # "" THEN token ELSE cont

InitialContinuation == "c1"

\* pollMessages: if (result.continuation) this.continuation = result.continuation
AdoptContinuationNever(held, returned) == held

AdoptContinuation(held, returned) == IF returned # "" THEN returned ELSE held

\* pollMessages: this.retryCount >= this.maxRetries
RetriesExhaustedLate(retryCount) == retryCount > maxRetries

RetriesExhausted(retryCount) == retryCount >= maxRetries

SetStatusNone(platform, status) == connectionStatus
SetStatus(platform, status) == [connectionStatus EXCEPT ![platform] = status]

\* the error texts a response to a poll can carry ("error" stands for
\* 'Failed to fetch chat messages: ...') and those a response to the
\* bootstrap request can carry besides
PollErrors == {"error", "No chat data available", "Could not get live chat information."}
BootErrors == PollErrors \cup {"parser is out of date", "No live streams found"}

YTInit ==
    /\ ytPhase = "new"
    /\ ytVideoId = ""
    /\ ytContinuation = ""
    /\ ytPollInterval = NULL
    /\ ytPollingIntervalMs = 100
    /\ ytIsActive = TRUE
    /\ ytLastError = ""
    /\ ytRetryCount = 0
    /\ ytTimers = 0
    /\ ytInflight = <<>>
    /\ ytDisconnected = FALSE
    /\ ytConsecFails = 0
    /\ ytLastReturned = ""
    /\ ytUpstream = [received |-> "", forwarded |-> ""]
    /\ ytPolledAfterDisc = FALSE

RemoveAt(s, i) == SubSeq(s, 1, i - 1) \o SubSeq(s, i + 1, Len(s))

storeGhosts == <<ops, redelivered, dropped>>

\* connect() up to its await: ChatContainer calls it once on a new instance
YTConnect ==
    /\ ytPhase = "new"
    /\ ytRetryCount' = 0
    /\ ytLastError' = ""
    /\ ytConsecFails' = 0
    /\ ytInflight' = Append(ytInflight, [kind |-> "boot", cont |-> "", last |-> ""])
    /\ ytPhase' = "connecting"
    /\ UNCHANGED <<restVars, storeVars, ccVars, lgVars, beVars, kkVars, ytVideoId, ytContinuation, ytPollInterval,
                   ytPollingIntervalMs, ytIsActive, ytTimers, ytDisconnected, ytLastReturned, ytUpstream,
                   ytPolledAfterDisc>>

\* pollMessages() up to its await, on the adapter fields as given: the guard
\* on the cursor state, then the request
PollStartUnguarded(videoId, continuation, inflight, status) ==
    /\ connectionStatus' = status
    /\ ytLastError' = ytLastError
    /\ ytInflight' = Append(inflight, [kind |-> "poll", cont |-> continuation,
                                       last |-> ytLastReturned'])
    /\ ytPolledAfterDisc' = (ytPolledAfterDisc \/ ytDisconnected)
PollStart(videoId, continuation, inflight, status) ==
    IF continuation = "" \/ videoId = ""
    THEN /\ connectionStatus' = [status EXCEPT !["youtube"] = FALSE]
         /\ ytLastError' = "missing"
         /\ ytInflight' = inflight
         /\ ytPolledAfterDisc' = ytPolledAfterDisc
    ELSE /\ connectionStatus' = status
         /\ ytLastError' = ytLastError
         /\ ytInflight' = Append(inflight, [kind |-> "poll", cont |-> continuation,
                                            last |-> ytLastReturned'])
         /\ ytPolledAfterDisc' = (ytPolledAfterDisc \/ ytDisconnected)

\* connect(): if (!this.videoId || !this.continuation) throw
BootValidAlways(videoId, continuation) == TRUE
BootValid(videoId, continuation) == videoId # "" /\ continuation # ""

\* connect() after the bootstrap response: an error body or a failed fetch
\* rejects; a body without cursor rejects after the fields were assigned;
\* otherwise the status is set and startAdaptivePolling issues the first poll
YTBootResponse ==
    \E i \in 1..Len(ytInflight) : \E outcome \in {"fail", "ok"} :
    \E token \in Cursors \cup {""} : \E vid \in {"", "v"} :
        /\ ytInflight[i].kind = "boot"
        /\ outcome = "fail" => vid = ""
        /\ \/ /\ outcome = "fail"
              /\ token = ""
              /\ connectionStatus' = SetStatus("youtube", FALSE)
              /\ ytLastError' \in BootErrors \cup {"fetch failed"}
              /\ ytPhase' = "rejected"
              /\ ytInflight' = RemoveAt(ytInflight, i)
              /\ UNCHANGED <<restVars, ytVideoId, ytContinuation, ytLastReturned, ytUpstream,
                             ytPolledAfterDisc>>
           \/ /\ outcome = "ok"
              /\ ytUpstream' = [received |-> "",
                                forwarded |-> BackendUpstreamCont("", InitialContinuation)]
              /\ ytVideoId' = vid
              /\ ytContinuation' = BackendNewContinuation(token, "")
              /\ ytLastReturned' = token
              /\ IF ~BootValid(ytVideoId', ytContinuation')
                 THEN /\ connectionStatus' = SetStatus("youtube", FALSE)
                      /\ ytLastError' = "error"
                      /\ ytPhase' = "rejected"
                      /\ ytInflight' = RemoveAt(ytInflight, i)
                      /\ UNCHANGED ytPolledAfterDisc
                 ELSE /\ ytPhase' = "resolved"
                      /\ PollStart(ytVideoId', ytContinuation', RemoveAt(ytInflight, i),
                                   SetStatus("youtube", TRUE))
        /\ UNCHANGED <<restVars, messages, storeGhosts, ccVars, lgVars, beVars, kkVars, ytPollInterval, ytPollingIntervalMs,
                       ytIsActive, ytRetryCount, ytTimers, ytDisconnected, ytConsecFails>>

\* the timer of scheduleNextPoll fires: pollMessages() up to its await
YTPollTimer ==
    /\ ytTimers > 0
    /\ ytTimers' = ytTimers - 1
    /\ ytLastReturned' = ytLastReturned
    /\ PollStart(ytVideoId, ytContinuation, ytInflight, connectionStatus)
    /\ UNCHANGED <<restVars, messages, storeGhosts, ccVars, lgVars, beVars, kkVars, ytPhase, ytVideoId, ytContinuation,
                   ytPollInterval, ytPollingIntervalMs, ytIsActive, ytRetryCount, ytDisconnected,
                   ytConsecFails, ytUpstream>>

\* pollMessages() after its await, the request failed (fetch rejected or timed
\* out, status not ok, or the body carries an error): the catch block, where
\* lastError becomes the message of the error
PollFailed(i, error) ==
    /\ ytLastError' = error
    /\ ytRetryCount' = ytRetryCount + 1
    /\ ytConsecFails' = ytConsecFails + 1
    /\ connectionStatus' = SetStatus("youtube", FALSE)
    /\ ytTimers' = IF RetriesExhausted(ytRetryCount') THEN ytTimers ELSE ytTimers + 1
    /\ ytInflight' = RemoveAt(ytInflight, i)
    /\ UNCHANGED <<restVars, messages, storeGhosts, ytContinuation, ytLastReturned>>

\* pollMessages() after its await, the backend answered the batch of the
\* cursor it passed on, with the next cursor
PollSucceeded(i, forwarded, token, rnd) ==
    LET returned == BackendNewContinuation(token, ytInflight[i].cont)
        newYouTubeMsgs == DecodeBatch(UpstreamBatch(forwarded), rnd)
    IN /\ ytContinuation' = AdoptContinuation(ytContinuation, returned)
       /\ ytLastReturned' = IF token # "" THEN token ELSE ytLastReturned
       /\ messages' = IF Len(newYouTubeMsgs) > 0
                      THEN AddMessagesFn(messages, newYouTubeMsgs) ELSE messages
       /\ connectionStatus' = SetStatus("youtube", TRUE)
       /\ ytLastError' = ""
       /\ ytConsecFails' = 0
       /\ ytTimers' = ytTimers + 1
       /\ ytInflight' = RemoveAt(ytInflight, i)
       /\ UNCHANGED <<restVars, storeGhosts, ytRetryCount>>

YTPollResponse ==
    \E i \in 1..Len(ytInflight) : \E outcome \in {"throw", "error", "ok"} :
        /\ ytInflight[i].kind = "poll"
        /\ LET forwarded == BackendUpstreamCont(ytInflight[i].cont, InitialContinuation)
           IN \/ /\ outcome = "throw"
                 /\ PollFailed(i, "fetch failed")
                 /\ UNCHANGED ytUpstream
              \/ /\ outcome = "error"
                 /\ \E error \in PollErrors : PollFailed(i, error)
                 /\ ytUpstream' = [received |-> ytInflight[i].cont, forwarded |-> forwarded]
              \/ /\ outcome = "ok"
                 /\ ytUpstream' = [received |-> ytInflight[i].cont, forwarded |-> forwarded]
                 /\ \E token \in Cursors \cup {""} :
                    \E rnd \in [1..Len(UpstreamBatch(forwarded)) -> RandomIds] :
                        PollSucceeded(i, forwarded, token, rnd)
        /\ UNCHANGED <<restVars, ccVars, lgVars, beVars, kkVars, ytPhase, ytVideoId, ytPollInterval, ytPollingIntervalMs,
                       ytIsActive, ytDisconnected, ytPolledAfterDisc>>

\* disconnect(): ChatContainer calls it on the services whose connect() resolved
YTDisconnect ==
    /\ ytPhase = "resolved"
    /\ ~ytDisconnected
    /\ ytTimers' = IF ytPollInterval # NULL THEN 0 ELSE ytTimers
    /\ ytPollInterval' = NULL
    /\ ytVideoId' = ""
    /\ ytContinuation' = ""
    /\ ytRetryCount' = 0
    /\ ytLastError' = ""
    /\ ytConsecFails' = 0
    /\ connectionStatus' = SetStatus("youtube", FALSE)
    /\ ytDisconnected' = TRUE
    /\ UNCHANGED <<restVars, messages, storeGhosts, ccVars, lgVars, beVars, kkVars, ytPhase, ytPollingIntervalMs, ytIsActive,
                   ytInflight, ytLastReturned, ytUpstream, ytPolledAfterDisc>>

\* handleVisibilityChange(): the listener stays registered after disconnect(),
\* which removes a different bound function
YTVisibilityChange ==
    \E hidden \in BOOLEAN :
        /\ ytIsActive' = ~hidden
        /\ ytIsActive' # ytIsActive
        /\ UNCHANGED <<restVars, storeVars, ccVars, lgVars, beVars, kkVars, ytPhase, ytVideoId, ytContinuation, ytPollInterval,
                       ytPollingIntervalMs, ytLastError, ytRetryCount, ytTimers, ytInflight,
                       ytDisconnected, ytConsecFails, ytLastReturned, ytUpstream,
                       ytPolledAfterDisc>>

(***************************************************************************)
(* ChatContainer: channelConfig.subscribe(async (config) => ...). The      *)
(* subscriber runs once for the loaded config and once for every config    *)
(* saved later; each call runs up to its next await in one step.           *)
(***************************************************************************)
Order == <<"twitch", "kick", "youtube">>
StageOf(p) == CHOOSE k \in 1..3 : Order[k] = p
Configs == SUBSET Platforms

\* config.twitch?.channel with both env values set, config.kick?.channel,
\* config.youtube?.channelName
Wanted(cfg, p) == p \in cfg /\ (p = "twitch" => ccTwitchEnv)

\* the first platform from stage k on whose service the call creates, 4 when
\* there is none left
NextStage(cfg, k) ==
    IF \E j \in k..3 : Wanted(cfg, Order[j])
    THEN CHOOSE j \in k..3 : Wanted(cfg, Order[j]) /\ \A i \in k..(j - 1) : ~Wanted(cfg, Order[i])
    ELSE 4

PcOf(stage) == IF stage = 4 THEN "done" ELSE Order[stage]

\* the call goes on from stage k: it creates the next wanted service, calls
\* its connect() and awaits it, or returns
Proceed(runs, adapters, r, k) ==
    LET stage == NextStage(runs[r].cfg, k)
    IN /\ ccRuns' = [runs EXCEPT ![r].pc = PcOf(stage)]
       /\ ccAdapters' = IF stage = 4 THEN adapters
                        ELSE [adapters EXCEPT ![r][Order[stage]] = "connecting"]

CCIdle ==
    /\ ccTwitchEnv = TRUE
    /\ ccRuns = <<>>
    /\ ccAdapters = <<>>
    /\ ccServices = <<>>

CCInit ==
    /\ ccTwitchEnv \in BOOLEAN
    /\ ccRuns = <<>>
    /\ ccAdapters = <<>>
    /\ ccServices = <<>>

\* the subscriber is called with a config: it disconnects and drops the
\* services of the array, then starts on the platforms of the config
CCConfigSet ==
    \E cfg \in Configs :
        /\ Len(ccRuns) < MaxConfigs
        /\ LET r == Len(ccRuns) + 1
               inArray == {ccServices[i] : i \in 1..Len(ccServices)}
               afterDisconnect ==
                   [q \in 1..Len(ccAdapters) |->
                       [p \in Platforms |->
                           IF <<q, p>> \in inArray THEN "disconnected" ELSE ccAdapters[q][p]]]
           IN Proceed(Append(ccRuns, [cfg |-> cfg, pc |-> "done"]),
                      Append(afterDisconnect, [p \in Platforms |-> "none"]), r, 1)
        /\ ccServices' = <<>>
        /\ UNCHANGED <<restVars, ccTwitchEnv, storeVars, ytVars, lgVars, beVars, kkVars>>

\* the awaited connect() resolves: services.push, then the next platform
CCConnectResolved ==
    \E r \in 1..Len(ccRuns) :
        /\ ccRuns[r].pc # "done"
        /\ LET p == ccRuns[r].pc
           IN /\ Proceed(ccRuns, [ccAdapters EXCEPT ![r][p] = "connected"], r, StageOf(p) + 1)
              /\ ccServices' = Append(ccServices, <<r, p>>)
        /\ UNCHANGED <<restVars, ccTwitchEnv, storeVars, ytVars, lgVars, beVars, kkVars>>

\* the awaited connect() rejects: the rejection of the Kick service is caught
\* by the inner try and the call goes on with YouTube; any other rejection
\* leaves the outer try and the call returns
CCConnectRejected ==
    \E r \in 1..Len(ccRuns) :
        /\ ccRuns[r].pc # "done"
        /\ LET p == ccRuns[r].pc
           IN Proceed(ccRuns, [ccAdapters EXCEPT ![r][p] = "failed"], r,
                      IF p = "kick" THEN StageOf(p) + 1 ELSE 4)
        /\ UNCHANGED <<restVars, ccServices, ccTwitchEnv, storeVars, ytVars, lgVars, beVars, kkVars>>

(***************************************************************************)
(* The YouTube service that polls the Data API with a key: its polling     *)
(* interval follows the activity of the chat, the quota and the visibility *)
(* of the page. Intervals are held in thousandths of a millisecond, which  *)
(* keeps the products by 1.5, 1.2 and 0.8 exact for MaxLegacySteps + 2     *)
(* changes.                                                                *)
(***************************************************************************)
InitialIntervalMs == 5000
HiddenIntervalMs == 10000
QuotaIntervalMs == 60000
ErrorCapMs == 30000
EmptyCapMs == 15000
ActiveFloorMs == 5000
BrakeIntervalMs == 30000
HintFloorMs == 3000
QuotaLimit == 100
BrakeQuota == 80
EmptyPollsThreshold == 3
ManyMessages == 3

Ms(x) == x * 1000
Min(a, b) == IF a <= b THEN a ELSE b
Max(a, b) == IF a >= b THEN a ELSE b

\* Math.min(this.pollingIntervalMs * 1.5, 30000)
ErrorInterval(interval) == Min((interval * 3) \div 2, Ms(ErrorCapMs))
\* Math.min(this.pollingIntervalMs * 1.2, 15000)
EmptyInterval(interval) == Min((interval * 6) \div 5, Ms(EmptyCapMs))
\* Math.max(this.pollingIntervalMs * 0.8, 5000)
ActiveInterval(interval) == Max((interval * 4) \div 5, Ms(ActiveFloorMs))
\* Math.max(data.pollingIntervalMillis, 3000)
HintInterval(hint) == Max(Ms(hint), Ms(HintFloorMs))

\* the interval after adaptPollingBasedOnActivity(messageCount), the quota
\* being hourlyQuotaUsed
AdaptedInterval(interval, empties, messageCount, quota) ==
    LET byActivity ==
            IF messageCount = 0
            THEN IF empties + 1 >= EmptyPollsThreshold THEN EmptyInterval(interval) ELSE interval
            ELSE IF messageCount > ManyMessages /\ interval > Ms(ActiveFloorMs)
                 THEN ActiveInterval(interval)
                 ELSE interval
    IN IF quota > BrakeQuota THEN Ms(BrakeIntervalMs) ELSE byActivity

AdaptedEmptyPolls(empties, messageCount) == IF messageCount = 0 THEN empties + 1 ELSE 0

\* the items of a liveChat/messages response with n messages, parsed
LegacyItems(n) == [i \in 1..n |-> [id |-> 200 + i, ts |-> 1, c |-> 200 + i]]

RECURSIVE AddEach(_, _)
\* data.items.forEach(item => addMessage(parseYouTubeMessage(item)))
AddEach(msgs, items) ==
    IF items = <<>> THEN msgs
    ELSE AddEach(AddMessageFn(msgs, Head(items)), Tail(items))

MessageCounts == {0, 1, 4}
\* data.pollingIntervalMillis, 0 for a response without it
Hints == {0, 2000, 7000, 90000}
QuotaLevels == {4, 79, 98}

LGIdle ==
    /\ lgPollingIntervalMs = Ms(InitialIntervalMs)
    /\ lgConsecutiveEmptyPolls = 0
    /\ lgHourlyQuotaUsed = 0
    /\ lgIsActive = TRUE
    /\ lgHidden = FALSE
    /\ lgTimer = 0
    /\ lgInflight = 0
    /\ lgSteps = 0
    /\ lgEvent = "none"
    /\ lgPrevIntervalMs = Ms(InitialIntervalMs)

\* connected and polling at the initial interval, every poll so far having
\* brought one to three messages; the quota used is what connect() and those
\* polls have spent
LGInit ==
    /\ lgPollingIntervalMs = Ms(InitialIntervalMs)
    /\ lgConsecutiveEmptyPolls = 0
    /\ lgHourlyQuotaUsed \in QuotaLevels
    /\ lgIsActive = TRUE
    /\ lgHidden = FALSE
    /\ lgTimer = 1
    /\ lgInflight = 0
    /\ lgSteps = 0
    /\ lgEvent = "none"
    /\ lgPrevIntervalMs = Ms(InitialIntervalMs)

\* the timer fires: pollMessages() up to its fetch. checkQuotaLimits() resets
\* the quota when ten minutes have passed and stops the poll at the limit.
LGPollTimer ==
    \E elapsed \in BOOLEAN :
        /\ lgTimer = 1
        /\ lgInflight < MaxLegacyInflight
        /\ LET quota == IF elapsed THEN 0 ELSE lgHourlyQuotaUsed
           IN IF quota >= QuotaLimit
              THEN /\ lgPollingIntervalMs' = Ms(QuotaIntervalMs)
                   /\ lgHourlyQuotaUsed' = quota
                   /\ lgTimer' = 1
                   /\ lgEvent' = "quota"
                   /\ UNCHANGED lgInflight
              ELSE /\ lgHourlyQuotaUsed' = quota + 1
                   /\ lgInflight' = lgInflight + 1
                   /\ lgTimer' = 0
                   /\ lgEvent' = "request"
                   /\ UNCHANGED lgPollingIntervalMs
        /\ lgPrevIntervalMs' = lgPollingIntervalMs
        /\ UNCHANGED <<restVars, lgConsecutiveEmptyPolls, lgIsActive, lgHidden, lgSteps,
                       storeVars, ytVars, ccVars, beVars, kkVars>>

\* the rest of pollMessages() once the fetch has returned or thrown
LGPollResponse ==
    \E outcome \in {"throw", "error403", "error", "noItems", "items"},
       n \in MessageCounts, hint \in Hints :
        /\ lgInflight > 0
        /\ lgSteps < MaxLegacySteps
        /\ outcome # "items" => (n = 0 /\ hint = 0)
        /\ lgInflight' = lgInflight - 1
        /\ lgSteps' = lgSteps + 1
        /\ lgPrevIntervalMs' = lgPollingIntervalMs
        /\ lgTimer' = 1
        /\ CASE outcome = "throw" ->
                  /\ lgPollingIntervalMs' = ErrorInterval(lgPollingIntervalMs)
                  /\ lgEvent' = "failed"
                  /\ UNCHANGED <<restVars, lgConsecutiveEmptyPolls, messages>>
             [] outcome = "error403" ->
                  /\ lgPollingIntervalMs' = Ms(QuotaIntervalMs)
                  /\ lgEvent' = "failed"
                  /\ UNCHANGED <<restVars, lgConsecutiveEmptyPolls, messages>>
             [] outcome = "error" ->
                  /\ lgEvent' = "failed"
                  /\ UNCHANGED <<restVars, lgPollingIntervalMs, lgConsecutiveEmptyPolls, messages>>
             [] outcome = "noItems" ->
                  /\ lgEvent' = "none"
                  /\ UNCHANGED <<restVars, lgPollingIntervalMs, lgConsecutiveEmptyPolls, messages>>
             [] outcome = "items" ->
                  /\ messages' = AddEach(messages, LegacyItems(n))
                  /\ lgConsecutiveEmptyPolls' = AdaptedEmptyPolls(lgConsecutiveEmptyPolls, n)
                  /\ lgPollingIntervalMs' =
                        IF hint # 0 THEN HintInterval(hint)
                        ELSE AdaptedInterval(lgPollingIntervalMs, lgConsecutiveEmptyPolls, n,
                                             lgHourlyQuotaUsed)
                  /\ lgEvent' = IF n > 0 THEN "active"
                                ELSE IF lgConsecutiveEmptyPolls' >= EmptyPollsThreshold
                                     THEN "sustainedEmpty" ELSE "empty"
        /\ UNCHANGED <<restVars, lgHourlyQuotaUsed, lgIsActive, lgHidden, connectionStatus, storeGhosts,
                       ytVars, ccVars, beVars, kkVars>>

\* handleVisibilityChange(): the page is hidden or shown again
LGVisibilityChange ==
    /\ lgSteps < MaxLegacySteps
    /\ lgSteps' = lgSteps + 1
    /\ lgHidden' = ~lgHidden
    /\ lgIsActive' = lgHidden
    /\ lgPollingIntervalMs' = IF lgHidden' THEN Ms(HiddenIntervalMs) ELSE lgPollingIntervalMs
    /\ lgTimer' = 1
    /\ lgEvent' = IF lgHidden' THEN "hidden" ELSE "visible"
    /\ lgPrevIntervalMs' = lgPollingIntervalMs
    /\ UNCHANGED <<restVars, lgConsecutiveEmptyPolls, lgHourlyQuotaUsed, lgInflight, storeVars,
                   ytVars, ccVars, beVars, kkVars>>

(***************************************************************************)
(* The backend of the polling adapter (POST /api/youtube-chat). A string   *)
(* is the sequence of its UTF-16 code units, each written as a one-letter  *)
(* string; the two decoders of the repository are told apart by `variant`: *)
(* "maps" is the decoder that takes the emote maps, "plain" the one of     *)
(* routes/api/youtube-chat/+server.ts.                                     *)
(***************************************************************************)
Variants == {"maps", "plain"}
maxMessages == 50
TruncateAt == 300

ImgSrc == <<"<", "i", "m", "g", " ", "s", "r", "c", "=", "\"">>
ImgAlt == <<"\"", " ", "a", "l", "t", "=", "\"">>
ImgRest == <<"\"", " ", "c", "l", "a", "s", "s", "=", "\"", "y", "t", "-", "e", "m", "o", "t",
             "e", "\"", " ", "s", "t", "y", "l", "e", "=", "\"", "h", "e", "i", "g", "h", "t",
             ":", "1", "e", "m", ";", "v", "e", "r", "t", "i", "c", "a", "l", "-", "a", "l",
             "i", "g", "n", ":", "-", "0", ".", "2", "e", "m", ";", "\"", " ", "/", ">">>
FacePrefix == <<"f", "a", "c", "e", "-">>
BecameMember == <<" ", "b", "e", "c", "a", "m", "e", " ", "a", " ", "m", "e", "m", "b", "e", "r", "!">>
YouTubeUser == <<"Y", "o", "u", "T", "u", "b", "e", " ", "U", "s", "e", "r">>
EmojiWord == <<"e", "m", "o", "j", "i">>
Colon == <<":">>
Ellipsis == <<"\\u2026">>                           \* U+2026
MoneyBag == <<"\\uD83D", "\\uDCB0">>                 \* the two code units of U+1F4B0
Ribbon == <<"\\uD83C", "\\uDF97", "\\uFE0F">>        \* U+1F397 U+FE0F
LowerOrDash == {"a", "b", "c", "d", "e", "f", "g", "h", "i", "j", "k", "l", "m", "n", "o", "p",
                "q", "r", "s", "t", "u", "v", "w", "x", "y", "z", "-"}

Rep(ch, n) == [i \in 1..n |-> ch]
Drop(str, n) == SubSeq(str, n + 1, Len(str))
Slice(str, from, to) == SubSeq(str, from + 1, IF to < Len(str) THEN to ELSE Len(str))

\* the regular expression face-[a-z-]+ matches at position i of str
FaceAt(str, i) ==
    /\ i + 5 <= Len(str)
    /\ SubSeq(str, i, i + 4) = FacePrefix
    /\ str[i + 5] \in LowerOrDash

\* the last position of the match that begins at i
FaceEnd(str, i) ==
    CHOOSE j \in (i + 5)..Len(str) :
        /\ \A m \in (i + 5)..j : str[m] \in LowerOrDash
        /\ j < Len(str) => str[j + 1] \notin LowerOrDash

\* name.replace(/^:+|:+$/g, '')
StripColons(name) ==
    LET inner == {i \in 1..Len(name) : name[i] # ":"}
    IN IF inner = {} THEN <<>>
       ELSE SubSeq(name, CHOOSE i \in inner : \A k \in inner : i <= k,
                         CHOOSE i \in inner : \A k \in inner : i >= k)

\* the name the post-processing gives a matched emote id: the emoji list
\* and the emote name map, here one map from id to name, else the id itself
MatchName(match, emoteNameMap) ==
    IF match \in DOMAIN emoteNameMap /\ emoteNameMap[match] # <<>>
    THEN emoteNameMap[match] ELSE match

RECURSIVE ReplaceEmoteIds(_, _)
\* msg.replace(/UC[\w-]{21}[AQgw]\/[A-Za-z0-9_-]+|face-[a-z-]+/g, ...): the
\* texts of the model hold no channel id, so only the second alternative
\* can match
ReplaceEmoteIds(msg, emoteNameMap) ==
    LET starts == {i \in 1..Len(msg) : FaceAt(msg, i)}
    IN IF starts = {} THEN msg
       ELSE LET i == CHOOSE k \in starts : \A k2 \in starts : k <= k2
                j == FaceEnd(msg, i)
                name == StripColons(MatchName(SubSeq(msg, i, j), emoteNameMap))
            IN SubSeq(msg, 1, i - 1) \o Colon \o name \o Colon
                   \o ReplaceEmoteIds(Drop(msg, j), emoteNameMap)

\* if (msg.length > 300) msg = msg.slice(0, 300) + '\u2026'
TruncateNever(msg) == msg
Truncate(msg) == IF Len(msg) > TruncateAt THEN Slice(msg, 0, TruncateAt) \o Ellipsis ELSE msg

NoEmoji == [shortcut |-> <<>>, emojiId |-> <<>>, thumb |-> <<>>]
Lookup(map, key) == IF key \in DOMAIN map THEN map[key] ELSE <<>>

\* the name of an emoji run: shortcuts[0], else emojiId, else the default
EmoteName(variant, emoji) ==
    IF emoji.shortcut # <<>> THEN emoji.shortcut
    ELSE IF emoji.emojiId # <<>> THEN emoji.emojiId
    ELSE IF variant = "maps" THEN EmojiWord ELSE Colon \o EmojiWord \o Colon

\* the image of an emoji run: its thumbnail, else (with the emote maps) the
\* entry of the emote map for its name or its id
EmoteUrl(variant, emoji, emoteMap) ==
    IF emoji.thumb # <<>> THEN emoji.thumb
    ELSE IF variant = "plain" THEN <<>>
    ELSE IF Lookup(emoteMap, EmoteName(variant, emoji)) # <<>>
         THEN Lookup(emoteMap, EmoteName(variant, emoji))
         ELSE IF emoji.emojiId # <<>> THEN Lookup(emoteMap, emoji.emojiId) ELSE <<>>

ImgTag(variant, url, name) ==
    ImgSrc \o url \o ImgAlt
        \o (IF variant = "maps" THEN Colon \o name \o Colon ELSE name) \o ImgRest

\* one turn of the loop over renderer.message.runs; st holds msg, emotes and
\* currIdx
RunStep(variant, st, run, emoteMap) ==
    IF run.text # <<>>
    THEN [st EXCEPT !.msg = @ \o run.text, !.currIdx = @ + Len(run.text)]
    ELSE IF run.emoji = NoEmoji THEN st
    ELSE LET name == EmoteName(variant, run.emoji)
             url == EmoteUrl(variant, run.emoji, emoteMap)
         IN IF url # <<>>
            THEN [msg |-> st.msg \o ImgTag(variant, url, name),
                  emotes |-> Append(st.emotes, [name |-> name, url |-> url,
                                                start |-> st.currIdx, end |-> st.currIdx + 1]),
                  currIdx |-> st.currIdx + 1]
            ELSE IF variant = "maps"
                 THEN [st EXCEPT !.msg = @ \o Colon \o name \o Colon,
                                 !.currIdx = @ + Len(name) + 2]
                 ELSE st

RECURSIVE RunLoop(_, _, _, _)
RunLoop(variant, st, runs, emoteMap) ==
    IF runs = <<>> THEN st
    ELSE RunLoop(variant, RunStep(variant, st, Head(runs), emoteMap), Tail(runs), emoteMap)

\* extractTextMessage(renderer, ...); rnd is the value of Math.random() as
\* an id and now the value of Date.now()
extractTextMessage(variant, renderer, emoteMap, emoteNameMap, rnd, now) ==
    LET st == RunLoop(variant, [msg |-> <<>>, emotes |-> <<>>, currIdx |-> 0],
                      renderer.runs, emoteMap)
        replaced == IF variant = "maps" THEN ReplaceEmoteIds(st.msg, emoteNameMap) ELSE st.msg
    IN [id |-> IF renderer.rid # 0 THEN renderer.rid ELSE rnd,
        username |-> IF renderer.author # <<>> THEN renderer.author ELSE YouTubeUser,
        message |-> Truncate(replaced),
        timestamp |-> IF renderer.timestampUsec # 0 THEN renderer.timestampUsec \div 1000
                      ELSE now,
        emotes |-> st.emotes,
        eventType |-> ""]

extractPaidMessage(variant, renderer, emoteMap, emoteNameMap, rnd, now) ==
    LET textMessage == extractTextMessage(variant, renderer, emoteMap, emoteNameMap, rnd, now)
    IN [textMessage EXCEPT
           !.eventType = "superchat",
           !.message = IF renderer.amount # <<>>
                       THEN MoneyBag \o <<" ">> \o renderer.amount \o <<" ", "-", " ">> \o @
                       ELSE @]

extractMembershipMessage(variant, renderer, emoteMap, emoteNameMap, rnd, now) ==
    LET textMessage == extractTextMessage(variant, renderer, emoteMap, emoteNameMap, rnd, now)
    IN [textMessage EXCEPT
           !.eventType = "membership",
           !.message = Ribbon \o <<" ">> \o textMessage.username \o BecameMember]

KnownItemTypes == {"text", "paid", "member"}

\* extractMessageFromChatItem(item, ...): the message of an item of a known
\* type; an item of another type gives null and is not decoded here
extractMessageFromChatItem(variant, item, emoteMap, emoteNameMap, rnd, now) ==
    CASE item.type = "text" ->
             extractTextMessage(variant, item, emoteMap, emoteNameMap, rnd, now)
      [] item.type = "paid" ->
             extractPaidMessage(variant, item, emoteMap, emoteNameMap, rnd, now)
      [] item.type = "member" ->
             extractMembershipMessage(variant, item, emoteMap, emoteNameMap, rnd, now)

\* the action is { addChatItemAction: { item } } ("add") or
\* { type: 'AddChatItemAction', item } ("alt")
HasItem(action) == action.kind \in {"add", "alt"}

\* the action gives a message
Decodable(action) ==
    HasItem(action) /\ action.item.type \in KnownItemTypes /\ ~action.item.malformed

\* reading the action throws a TypeError: the action is null, or the
\* message.runs of its item is not iterable
Throws(action) ==
    \/ action.kind = "null"
    \/ HasItem(action) /\ action.item.type \in KnownItemTypes /\ action.item.malformed

CapNone(n) == n
Cap(n) == IF n < maxMessages THEN n ELSE maxMessages

\* extractMinimalChatMessages(chatData, 50, ...): thrown tells that the loop
\* was left by an exception, messages is the array returned otherwise; the
\* item of action i without an id gets the random id rnd + i
extractMinimalChatMessages(variant, actions, emoteMap, emoteNameMap, rnd, now) ==
    LET n == Len(actions)
        produced(i) == Cardinality({k \in 1..(i - 1) : Decodable(actions[k])})
        examined(i) == produced(i) < maxMessages
        decodable == SelectSeq([i \in 1..n |-> i], LAMBDA i : Decodable(actions[i]))
    IN [thrown |-> \E i \in 1..n : examined(i) /\ Throws(actions[i]),
        messages |-> [k \in 1..Cap(Len(decodable)) |->
                         extractMessageFromChatItem(variant, actions[decodable[k]].item,
                                                    emoteMap, emoteNameMap,
                                                    rnd + decodable[k], now)]]

\* the emote maps the handler builds from liveChatInstance.emojis: the
\* shortcut and the id of an emoji with an image give its url, and the same
\* keys (the id alone for an emoji without image) give its best name
BestName(emoji) ==
    IF emoji.shortcut # <<>> THEN emoji.shortcut
    ELSE IF emoji.emojiId # <<>> THEN emoji.emojiId ELSE EmojiWord

KeysOf(emoji, withShortcut) ==
    (IF withShortcut /\ emoji.shortcut # <<>> THEN {emoji.shortcut} ELSE {})
        \cup (IF emoji.emojiId # <<>> THEN {emoji.emojiId} ELSE {})

LastWithKey(emojis, key, withShortcut) ==
    emojis[CHOOSE i \in 1..Len(emojis) :
               /\ key \in KeysOf(emojis[i], withShortcut)
               /\ \A j \in (i + 1)..Len(emojis) : key \notin KeysOf(emojis[j], withShortcut)]

BuildEmoteMap(emojis) ==
    LET withUrl == SelectSeq(emojis, LAMBDA e : e.thumb # <<>>)
        keys == UNION {KeysOf(withUrl[i], TRUE) : i \in 1..Len(withUrl)}
    IN [k \in keys |-> LastWithKey(withUrl, k, TRUE).thumb]

BuildEmoteNameMap(emojis) ==
    LET keyed(e) == KeysOf(e, e.thumb # <<>>)
        keys == UNION {keyed(emojis[i]) : i \in 1..Len(emojis)}
    IN [k \in keys |->
           BestName(emojis[CHOOSE i \in 1..Len(emojis) :
                               /\ k \in keyed(emojis[i])
                               /\ \A j \in (i + 1)..Len(emojis) : k \notin keyed(emojis[j])])]

(***************************************************************************)
(* What the backend is given: chat actions, emoji lists, requests.         *)
(***************************************************************************)
Wave == <<"w", "a", "v", "e">>
FaceA == <<"f", "a", "c", "e", "-", "a">>
Smile == <<"s", "m", "i", "l", "e">>
Hi == <<"h", "i">>
Url == <<"u">>
Five == <<"5">>
Bob == <<"B", "o", "b">>

TextRun(chars) == [text |-> chars, emoji |-> NoEmoji]
EmojiRun(shortcut, emojiId, thumb) ==
    [text |-> <<>>, emoji |-> [shortcut |-> shortcut, emojiId |-> emojiId, thumb |-> thumb]]

Runs ==
    {TextRun(Hi), TextRun(Rep("a", TruncateAt - 1)), TextRun(Rep("a", TruncateAt + 1)),
     EmojiRun(Wave, <<>>, <<>>), EmojiRun(Wave, <<>>, Url), EmojiRun(<<>>, FaceA, <<>>),
     EmojiRun(<<>>, <<>>, <<>>)}

MaxRuns == 2
RunLists == {<<>>} \cup SeqsUpTo(Runs, MaxRuns)

Item(type, rid, runs, amount) ==
    [type |-> type, rid |-> rid, runs |-> runs, author |-> Bob, amount |-> amount,
     timestampUsec |-> 2000, malformed |-> FALSE]

Malformed == [Item("text", 9, <<>>, <<>>) EXCEPT !.malformed = TRUE]

Items ==
    {Item("text", 7, r, <<>>) : r \in RunLists}
        \cup {Item("paid", 7, r, a) : r \in SeqsUpTo(Runs, 1), a \in {<<>>, Five}}
        \cup {Item("member", 7, r, <<>>) : r \in SeqsUpTo(Runs, 1)}
        \cup {Item("other", 7, <<TextRun(Hi)>>, <<>>), Malformed,
              [Item("text", 0, <<TextRun(Hi)>>, <<>>) EXCEPT !.author = <<>>, !.timestampUsec = 0]}

Action(kind, item) == [kind |-> kind, item |-> item]
Good(rid) == Action("add", Item("text", rid, <<TextRun(Hi)>>, <<>>))

MixedActions ==
    {Good(1), Good(2), Action("alt", Item("text", 3, <<TextRun(Hi)>>, <<>>)),
     Action("other", Malformed), Action("noItem", Malformed), Action("null", Malformed),
     Action("add", Malformed), Action("add", Item("other", 4, <<TextRun(Hi)>>, <<>>))}

MaxActions == 2
BulkActions == 52
GoodBulk == [i \in 1..BulkActions |-> Good(i)]

ActionBatches ==
    {<<>>} \cup {<<Action("add", it)>> : it \in Items}
        \cup SeqsUpTo(MixedActions, MaxActions)
        \cup {GoodBulk,
              [GoodBulk EXCEPT ![2] = Action("other", Malformed)],
              [GoodBulk EXCEPT ![BulkActions] = Action("null", Malformed)],
              [GoodBulk EXCEPT ![3] = Action("add", Malformed)]}

EmojiLists ==
    {<<>>,
     <<[shortcut |-> Wave, emojiId |-> <<>>, thumb |-> Url]>>,
     <<[shortcut |-> Smile, emojiId |-> FaceA, thumb |-> <<>>]>>}

(***************************************************************************)
(* POST /api/youtube-chat. The handler is a function of the request, the   *)
(* two caches and what the upstream library answers; PostOutcomes is the   *)
(* set of its results over all upstream answers.                           *)
(***************************************************************************)
Absent == "absent"
NoRequest == [channelName |-> "", continuation |-> "", videoId |-> ""]
NoResponse == [status |-> 0]
NoInfo == [cached |-> FALSE]

\* channelName: a channel id, an @handle or URL, a plain name, or no string.
\* The adapter sends the channel name alone to connect and the video id
\* with the continuation it holds to poll.
ChannelNames == {"id", "handle", "name", "missing"}
Requests ==
    [channelName : ChannelNames, continuation : {""}, videoId : {""}]
        \cup [channelName : {"name"}, continuation : {"", "c1"}, videoId : {"v"}]

\* the video info getLiveChatInstance() caches: the emoji list of the chat,
\* the continuation of its livechat and the one getLiveChat() would give
Infos ==
    {[cached |-> TRUE, emojis |-> e, initial |-> "c1", fallback |-> ""] : e \in EmojiLists}
        \cup {[cached |-> TRUE, emojis |-> <<>>, initial |-> "", fallback |-> c] :
                 c \in {"", "c1"}}

OkStatus == 200

ErrorResponseAs500(vid, cont, error) ==
    [status |-> 500, messages |-> <<>>, videoId |-> vid, continuation |-> cont,
     error |-> error]
ErrorResponse(vid, cont, error) ==
    [status |-> OkStatus, messages |-> <<>>, videoId |-> vid, continuation |-> cont,
     error |-> error]

SuccessResponse(msgs, vid, cont, emoteMap) ==
    [status |-> OkStatus, messages |-> msgs, videoId |-> vid, continuation |-> cont,
     error |-> Absent, emoteMap |-> emoteMap]

Outcome(resp, actions, upstream, instances, info) ==
    [response |-> resp, actions |-> actions, upstream |-> upstream,
     youtubeInstances |-> instances, liveChatInstances |-> info]

\* Step 3: the chat messages of the video
GetChatMessages(variant, vid, cont, info) ==
    LET initial == IF info.initial # "" THEN info.initial ELSE info.fallback
        upstream == BackendUpstreamCont(cont, initial)
        failed == Outcome(ErrorResponse(vid, cont, "Failed to fetch chat messages"),
                          <<>>, upstream, TRUE, info)
        emoteMap == IF variant = "maps" THEN BuildEmoteMap(info.emojis) ELSE <<>>
        emoteNameMap == IF variant = "maps" THEN BuildEmoteNameMap(info.emojis) ELSE <<>>
        decoded(actions) ==
            extractMinimalChatMessages(variant, actions, emoteMap, emoteNameMap, 900, 5)
    IN IF upstream = "" THEN {failed}
       ELSE {failed,
             Outcome(ErrorResponse(vid, cont, "No chat data available"),
                     <<>>, upstream, TRUE, info)}
            \cup {IF decoded(actions).thrown
                  THEN [failed EXCEPT !.actions = actions]
                  ELSE Outcome(SuccessResponse(decoded(actions).messages, vid,
                                               BackendNewContinuation(token, cont), emoteMap),
                               actions, upstream, TRUE, info) :
                     actions \in ActionBatches, token \in {"", "c2"}}

\* Step 2: the live chat of the video, from the cache or from getInfo()
GetLiveChat(variant, vid, cont, info) ==
    IF info # NoInfo
    THEN GetChatMessages(variant, vid, cont, info)
    ELSE {Outcome(ErrorResponse(vid, "", "Could not get live chat information."),
                  <<>>, "", TRUE, NoInfo)}
            \cup UNION {GetChatMessages(variant, vid, cont, i) : i \in Infos}

\* Step 1: the live video of the channel
ResolveFailures(channelName) ==
    CASE channelName = "missing" -> {"Failed to resolve channel"}
      [] channelName = "name" -> {"Could not find channel", "parser is out of date",
                                  "Failed to resolve channel", "No live streams found"}
      [] OTHER -> {"parser is out of date", "Failed to resolve channel",
                   "No live streams found"}

ResolveVideo(variant, req, info) ==
    {Outcome(ErrorResponse("", "", e), <<>>, "", TRUE, info) :
        e \in ResolveFailures(req.channelName)}
      \cup IF req.channelName = "missing" THEN {}
           ELSE {Outcome(ErrorResponse("", req.continuation, "Missing required parameters"),
                         <<>>, "", TRUE, info)}
                    \cup GetLiveChat(variant, "v", req.continuation, info)

PostOutcomes(variant, req, instances, info) ==
    {Outcome(ErrorResponse("", "", "thrown"), <<>>, "", instances, info)}
      \cup IF req.videoId = ""
           THEN ResolveVideo(variant, req, info)
           ELSE GetLiveChat(variant, req.videoId, req.continuation, info)

BEIdle ==
    /\ beVariant = "maps"
    /\ beYoutubeInstances = FALSE
    /\ beLiveChatInstances = NoInfo
    /\ beRequest = NoRequest
    /\ beResponse = NoResponse
    /\ beActions = <<>>
    /\ beUpstream = ""

BEInit ==
    /\ beVariant \in Variants
    /\ beYoutubeInstances = FALSE
    /\ beLiveChatInstances = NoInfo
    /\ beRequest = NoRequest
    /\ beResponse = NoResponse
    /\ beActions = <<>>
    /\ beUpstream = ""

\* the handler answers a request
POST ==
    \E req \in Requests :
        /\ beResponse = NoResponse
        /\ \E o \in PostOutcomes(beVariant, req, beYoutubeInstances, beLiveChatInstances) :
               /\ beRequest' = req
               /\ beResponse' = o.response
               /\ beActions' = o.actions
               /\ beUpstream' = o.upstream
               /\ beYoutubeInstances' = o.youtubeInstances
               /\ beLiveChatInstances' = o.liveChatInstances
        /\ UNCHANGED <<restVars, beVariant, storeVars, ytVars, ccVars, lgVars, kkVars>>

\* the response has been sent; the caches stay
BEResponseSent ==
    /\ beResponse # NoResponse
    /\ beRequest' = NoRequest
    /\ beResponse' = NoResponse
    /\ beActions' = <<>>
    /\ beUpstream' = ""
    /\ UNCHANGED <<restVars, beVariant, beYoutubeInstances, beLiveChatInstances,
                   storeVars, ytVars, ccVars, lgVars, kkVars>>

(***************************************************************************)
(* KickService: the chatroom id is looked up over REST, then the Pusher    *)
(* socket is opened and the chatroom channel subscribed.                   *)
(***************************************************************************)
KKInit ==
    /\ kkPhase = "new"
    /\ kkChatroomId = 0
    /\ kkWs = "none"
    /\ kkTimer = FALSE
    /\ kkFrames = 0
    /\ kkSteps = 0
    /\ kkDisconnected = FALSE

\* connect() up to the await of getChatroomId()
KKConnect ==
    /\ kkPhase = "new"
    /\ kkPhase' = "lookup"
    /\ UNCHANGED <<restVars, kkChatroomId, kkWs, kkTimer, kkFrames, kkSteps, kkDisconnected,
                   storeVars, ytVars, ccVars, lgVars, beVars>>

\* getChatroomId() after its fetch and the rest of connect(): the fetch
\* rejects, the status is not ok, the body has no chatroom id, or it has one
KKLookupResponse ==
    \E outcome \in {"throw", "notOk", "noId", "id"} :
        /\ kkPhase = "lookup"
        /\ IF outcome = "id"
           THEN /\ kkChatroomId' = 77
                /\ kkWs' = "connecting"
                /\ kkTimer' = TRUE
                /\ kkPhase' = "socket"
                /\ UNCHANGED connectionStatus
           ELSE /\ connectionStatus' = SetStatus("kick", FALSE)
                /\ kkPhase' = "rejected"
                /\ UNCHANGED <<restVars, kkChatroomId, kkWs, kkTimer>>
        /\ UNCHANGED <<restVars, kkFrames, kkSteps, kkDisconnected, messages, storeGhosts,
                       ytVars, ccVars, lgVars, beVars>>

\* ws.onopen: subscribe() sends the pusher:subscribe frame
KKSocketOpen ==
    /\ kkWs = "connecting"
    /\ kkSteps < MaxKickSteps
    /\ kkSteps' = kkSteps + 1
    /\ kkWs' = "open"
    /\ kkFrames' = IF kkChatroomId # 0 THEN kkFrames + 1 ELSE kkFrames
    /\ UNCHANGED <<restVars, kkPhase, kkChatroomId, kkTimer, kkDisconnected,
                   storeVars, ytVars, ccVars, lgVars, beVars>>

\* the messages of a chat event, parsed
KickIds == {301, 302}
parseKickMessage(id) == [id |-> id, ts |-> 2, c |-> id]

\* ws.onmessage: handleMessage(event.data)
KKSocketMessage ==
    \E event \in {"established", "subscribed", "subscriptionError", "chat", "other"} :
    \E id \in KickIds :
        /\ kkWs = "open"
        /\ kkSteps < MaxKickSteps
        /\ kkSteps' = kkSteps + 1
        /\ event # "chat" => id = 301
        /\ connectionStatus' =
               CASE event \in {"established", "subscribed"} -> SetStatus("kick", TRUE)
                 [] event = "subscriptionError" -> SetStatus("kick", FALSE)
                 [] OTHER -> connectionStatus
        /\ messages' = IF event = "chat" THEN AddMessageFn(messages, parseKickMessage(id))
                       ELSE messages
        /\ UNCHANGED <<restVars, kkPhase, kkChatroomId, kkWs, kkTimer, kkFrames, kkDisconnected,
                       storeGhosts, ytVars, ccVars, lgVars, beVars>>

\* ws.onerror: the status is cleared and the promise of connect() rejected,
\* which has an effect while it is pending
KKSocketError ==
    /\ kkWs \in {"connecting", "open"}
    /\ kkSteps < MaxKickSteps
    /\ kkSteps' = kkSteps + 1
    /\ connectionStatus' = SetStatus("kick", FALSE)
    /\ kkPhase' = IF kkPhase = "socket" THEN "rejected" ELSE kkPhase
    /\ UNCHANGED <<restVars, kkChatroomId, kkWs, kkTimer, kkFrames, kkDisconnected, messages,
                   storeGhosts, ytVars, ccVars, lgVars, beVars>>

\* ws.onclose; ReconnectingWebSocket then connects again unless it was
\* closed by disconnect()
KKSocketClose ==
    /\ kkWs \in {"connecting", "open"}
    /\ kkSteps < MaxKickSteps
    /\ kkSteps' = kkSteps + 1
    /\ kkWs' = "closed"
    /\ connectionStatus' = SetStatus("kick", FALSE)
    /\ UNCHANGED <<restVars, kkPhase, kkChatroomId, kkTimer, kkFrames, kkDisconnected, messages,
                   storeGhosts, ytVars, ccVars, lgVars, beVars>>

KKSocketReconnect ==
    /\ kkWs = "closed"
    /\ ~kkDisconnected
    /\ kkSteps < MaxKickSteps
    /\ kkSteps' = kkSteps + 1
    /\ kkWs' = "connecting"
    /\ UNCHANGED <<restVars, kkPhase, kkChatroomId, kkTimer, kkFrames, kkDisconnected,
                   storeVars, ytVars, ccVars, lgVars, beVars>>

\* the timer of connect() fires after 2 s: resolve() if the socket is open
KKTimerFires ==
    /\ kkTimer
    /\ kkTimer' = FALSE
    /\ kkPhase' = IF kkPhase = "socket" /\ kkWs = "open" THEN "resolved" ELSE kkPhase
    /\ UNCHANGED <<restVars, kkChatroomId, kkWs, kkFrames, kkSteps, kkDisconnected,
                   storeVars, ytVars, ccVars, lgVars, beVars>>

\* disconnect(): ChatContainer calls it on the services whose connect() resolved
KKDisconnect ==
    /\ kkPhase = "resolved"
    /\ ~kkDisconnected
    /\ kkDisconnected' = TRUE
    /\ kkWs' = "closed"
    /\ connectionStatus' = SetStatus("kick", FALSE)
    /\ UNCHANGED <<restVars, kkPhase, kkChatroomId, kkTimer, kkFrames, kkSteps, messages,
                   storeGhosts, ytVars, ccVars, lgVars, beVars>>

(***************************************************************************)
(* ChatMessage.svelte: parseMessageWithMentions(messageText, emotes).      *)
(* Positions are the 0-based indexes of the JavaScript string; ranges are  *)
(* inclusive at both ends.                                                 *)
(***************************************************************************)
\* the characters of code 32 to 126, in the order of their codes (the grave
\* accent is written \x60)
Ascii ==
    <<" ", "!", "\"", "#", "$", "%", "&", "'", "(", ")", "*", "+", ",", "-", ".", "/", "0",
      "1", "2", "3", "4", "5", "6", "7", "8", "9", ":", ";", "<", "=", ">", "?", "@", "A",
      "B", "C", "D", "E", "F", "G", "H", "I", "J", "K", "L", "M", "N", "O", "P", "Q", "R",
      "S", "T", "U", "V", "W", "X", "Y", "Z", "[", "\\", "]", "^", "_", "\\x60", "a", "b", "c",
      "d", "e", "f", "g", "h", "i", "j", "k", "l", "m", "n", "o", "p", "q", "r", "s", "t",
      "u", "v", "w", "x", "y", "z", "{", "|", "}", "~">>
FirstCode == 32
\* String.prototype.charCodeAt on one character
CharCode(c) == FirstCode - 1 + CHOOSE k \in 1..Len(Ascii) : Ascii[k] = c
CodesOf(from, to) == {Ascii[k - FirstCode + 1] : k \in CharCode(from)..CharCode(to)}

\* \w
WordChars == CodesOf("0", "9") \cup CodesOf("A", "Z") \cup CodesOf("a", "z") \cup {"_"}
\* [\w\-._~:/?#[\]@!$&'()*+,;=%]
UrlChars ==
    WordChars \cup {"-", ".", "_", "~", ":", "/", "?", "#", "[", "]", "@", "!", "$", "&", "'",
                    "(", ")", "*", "+", ",", ";", "=", "%"}
Https == <<"h", "t", "t", "p", "s", ":", "/", "/">>
\* String.prototype.toLowerCase on one character
Lower(c) ==
    IF c \in CodesOf("A", "Z") THEN Ascii[CharCode(c) + 32 - FirstCode + 1] ELSE c

CharAt(text, i) == text[i + 1]
Least(S) == CHOOSE i \in S : \A j \in S : i <= j

\* the last index of the run of characters of class that starts at i
RunEnd(text, i, class) ==
    CHOOSE e \in i..(Len(text) - 1) :
        /\ \A k \in i..e : CharAt(text, k) \in class
        /\ e = Len(text) - 1 \/ CharAt(text, e + 1) \notin class

\* /https:\/\/[...]+/gi matches at index i
LinkAt(text, i) ==
    /\ i + Len(Https) < Len(text)
    /\ \A k \in 1..Len(Https) : Lower(text[i + k]) = Https[k]
    /\ CharAt(text, i + Len(Https)) \in UrlChars

\* /@(\w+)/g matches at index i
MentionAt(text, i) ==
    /\ i + 1 < Len(text)
    /\ CharAt(text, i) = "@"
    /\ CharAt(text, i + 1) \in WordChars

Range(start, end, value) == [start |-> start, end |-> end, value |-> value]

RECURSIVE LinkRanges(_, _)
\* the while loop over urlRegex.exec(messageText), from lastIndex on
LinkRanges(text, lastIndex) ==
    LET starts == {i \in lastIndex..(Len(text) - 1) : LinkAt(text, i)}
    IN IF starts = {} THEN <<>>
       ELSE LET start == Least(starts)
                end == RunEnd(text, start + Len(Https), UrlChars)
            IN <<Range(start, end, Slice(text, start, end + 1))>>
                   \o LinkRanges(text, end + 1)

RECURSIVE MentionRanges(_, _)
\* the while loop over mentionRegex.exec(messageText); the value is match[1]
MentionRanges(text, lastIndex) ==
    LET starts == {i \in lastIndex..(Len(text) - 1) : MentionAt(text, i)}
    IN IF starts = {} THEN <<>>
       ELSE LET start == Least(starts)
                end == RunEnd(text, start + 1, WordChars)
            IN <<Range(start, end, Slice(text, start + 1, end + 1))>>
                   \o MentionRanges(text, end + 1)

\* start <= eEnd && end >= eStart
OverlapsNever(range, other) == FALSE
Overlaps(range, other) == range.start <= other.end /\ range.end >= other.start

OverlapsSome(range, others) == \E k \in 1..Len(others) : Overlaps(range, others[k])

Token(type, range, data) ==
    [type |-> type, start |-> range.start, end |-> range.end, value |-> range.value,
     data |-> data]

\* allRanges before the sort: the emotes, the links that overlap no emote,
\* the mentions that overlap no emote and no link
AllRanges(text, emotes, links, mentions) ==
    [k \in 1..Len(emotes) |->
        Token("emote", Range(emotes[k].start, emotes[k].end,
                             Slice(text, emotes[k].start, emotes[k].end + 1)), k)]
        \o [k \in 1..Len(SelectSeq(links, LAMBDA r : ~OverlapsSome(r, emotes))) |->
               Token("link", SelectSeq(links, LAMBDA r : ~OverlapsSome(r, emotes))[k], 0)]
        \o [k \in 1..Len(SelectSeq(mentions, LAMBDA r : ~OverlapsSome(r, emotes)
                                                        /\ ~OverlapsSome(r, links))) |->
               Token("mention", SelectSeq(mentions, LAMBDA r : ~OverlapsSome(r, emotes)
                                                               /\ ~OverlapsSome(r, links))[k], 0)]

\* allRanges.sort((a, b) => a.start - b.start); the sort is stable
SortByStart(tokens) ==
    LET rank(i) == Cardinality({j \in 1..Len(tokens) :
                                   \/ tokens[j].start < tokens[i].start
                                   \/ tokens[j].start = tokens[i].start /\ j <= i})
    IN [k \in 1..Len(tokens) |-> tokens[CHOOSE i \in 1..Len(tokens) : rank(i) = k]]

\* the pieces of the result: plain text, or the element written for a token
Piece(type, value, url) == [type |-> type, value |-> value, url |-> url]
PlainText(chars) == IF chars = <<>> THEN <<>> ELSE <<Piece("text", chars, <<>>)>>

TokenPiece(token, emotes) ==
    CASE token.type = "emote" -> Piece("img", emotes[token.data].name, emotes[token.data].url)
      [] token.type = "link" -> Piece("a", token.value, token.value)
      [] token.type = "mention" -> Piece("span", <<"@">> \o token.value, <<>>)

RECURSIVE BuildOutput(_, _, _, _)
\* the loop over allRanges and the rest of the text after it
BuildOutput(text, tokens, emotes, idx) ==
    IF tokens = <<>> THEN PlainText(Slice(text, idx, Len(text)))
    ELSE LET token == Head(tokens)
         IN (IF token.start > idx THEN PlainText(Slice(text, idx, token.start)) ELSE <<>>)
                \o <<TokenPiece(token, emotes)>>
                \o BuildOutput(text, Tail(tokens), emotes, token.end + 1)

\* The fallback replacement: the pattern is built in a template literal, so
\* its \s, \[ and \] reach the RegExp as s, [ and ]; the character class ends
\* at the first ] and the pattern asks for the string start, or the seven
\* characters {}<>"'] after a character of the class, before the name, and
\* for the string end or the same characters after it. The result holds an
\* <img for every emote and the texts of the model hold no braces: nothing
\* is replaced.
Fallback(result, emotes) == result

(***************************************************************************)
(* The texts and emote lists the component is given.                       *)
(***************************************************************************)
Fragments ==
    {<<"h", "e", "l", "l", "o">>, <<" ">>, <<"@", "b", "o", "b">>, <<"@">>,
     <<"h", "t", "t", "p", ":", "/", "/", "x">>,
     <<"h", "t", "t", "p", "s", ":", "/", "/", "x">>,
     <<"H", "t", "t", "p", "s", ":", "/", "/", "x">>}

MaxFragments == 3

RECURSIVE Join(_)
Join(parts) == IF parts = <<>> THEN <<>> ELSE Head(parts) \o Join(Tail(parts))

\* "hello @bob http://x" and the same text with an https link
HelloBobHttp ==
    <<"h", "e", "l", "l", "o", " ", "@", "b", "o", "b", " ",
      "h", "t", "t", "p", ":", "/", "/", "x">>
HelloBobHttps ==
    <<"h", "e", "l", "l", "o", " ", "@", "b", "o", "b", " ",
      "h", "t", "t", "p", "s", ":", "/", "/", "x">>

Texts ==
    {<<>>, HelloBobHttp, HelloBobHttps}
        \cup {Join(parts) : parts \in SeqsUpTo(Fragments, MaxFragments)}

Emote(start, end) == [name |-> <<"l", "o", "l">>, url |-> <<"u">>, start |-> start, end |-> end]

EmoteLists ==
    {<<>>, <<Emote(0, 1)>>, <<Emote(3, 7)>>, <<Emote(9, 9)>>, <<Emote(0, 1), Emote(9, 9)>>,
     <<Emote(9, 9), Emote(0, 1)>>}

RNIdle ==
    /\ rnText = <<>>
    /\ rnEmotes = <<>>
    /\ rnLinkRanges = <<>>
    /\ rnMentionRanges = <<>>
    /\ rnAllRanges = <<>>
    /\ rnResult = <<>>
    /\ rnDone = FALSE

RNInit ==
    /\ rnText \in Texts
    /\ rnEmotes \in EmoteLists
    /\ rnLinkRanges = <<>>
    /\ rnMentionRanges = <<>>
    /\ rnAllRanges = <<>>
    /\ rnResult = <<>>
    /\ rnDone = FALSE

\* parseMessageWithMentions(message.message, message.emotes)
parseMessageWithMentions ==
    /\ ~rnDone
    /\ rnDone' = TRUE
    /\ IF rnText = <<>>
       THEN UNCHANGED <<rnLinkRanges, rnMentionRanges, rnAllRanges, rnResult>>
       ELSE /\ rnLinkRanges' = LinkRanges(rnText, 0)
            /\ rnMentionRanges' = MentionRanges(rnText, 0)
            /\ rnAllRanges' = SortByStart(AllRanges(rnText, rnEmotes, rnLinkRanges',
                                                    rnMentionRanges'))
            /\ rnResult' = Fallback(BuildOutput(rnText, rnAllRanges', rnEmotes, 0), rnEmotes)
    /\ UNCHANGED <<rnText, rnEmotes, storeVars, ytVars, ccVars, lgVars, beVars, kkVars, ircVars, colVars, stVars,
                   twVars, ftVars, emVars>>

(***************************************************************************)
(* twitchService.ts: parsePrivMsg(line).                                   *)
(***************************************************************************)
\* line.indexOf(c): the 0-based index of the first c, or -1
IndexOf(str, c) ==
    IF \E i \in 1..Len(str) : str[i] = c
    THEN (CHOOSE i \in 1..Len(str) : str[i] = c /\ \A j \in 1..(i - 1) : str[j] # c) - 1
    ELSE -1

RECURSIVE Split(_, _)
\* str.split(c)
Split(str, c) ==
    IF IndexOf(str, c) = -1 THEN <<str>>
    ELSE <<Slice(str, 0, IndexOf(str, c))>> \o Split(Drop(str, IndexOf(str, c) + 1), c)

\* line.slice(1, tagEnd) and line.slice(tagEnd + 1); tagEnd is -1 for a line
\* without space
TagString(line) ==
    IF IndexOf(line, " ") = -1 THEN SubSeq(line, 2, Len(line) - 1)
    ELSE Slice(line, 1, IndexOf(line, " "))
MessageData(line) ==
    IF line # <<>> /\ line[1] = "@" THEN Drop(line, IndexOf(line, " ") + 1) ELSE line

\* tags[key] after the forEach over tagString.split(';'): the value of the
\* last tag with that key, '' for none; the tags are {} for a line without @
TagValue(line, key) ==
    IF line = <<>> \/ line[1] # "@" THEN <<>>
    ELSE LET pairs == [k \in 1..Len(Split(TagString(line), ";")) |->
                          Split(Split(TagString(line), ";")[k], "=")]
             with == {k \in 1..Len(pairs) : pairs[k][1] = key}
         IN IF with = {} THEN <<>>
            ELSE LET pair == pairs[CHOOSE k \in with : \A j \in with : j <= k]
                 IN IF Len(pair) >= 2 THEN pair[2] ELSE <<>>

ColorKey == <<"c", "o", "l", "o", "r">>
DisplayNameKey ==
    <<"d", "i", "s", "p", "l", "a", "y", "-", "n", "a", "m", "e">>
TmiPrivmsg ==
    <<".", "t", "m", "i", ".", "t", "w", "i", "t", "c", "h", ".", "t", "v", " ", "P", "R",
      "I", "V", "M", "S", "G", " ", "#">>

HasAt(str, i, lit) ==
    /\ i + Len(lit) <= Len(str)
    /\ \A k \in 1..Len(lit) : str[i + k] = lit[k]
IsWordRun(str, i) == i < Len(str) /\ CharAt(str, i) \in WordChars

\* /:(\w+)!\w+@\w+\.tmi\.twitch\.tv PRIVMSG #\w+ :(.+)/ matches at index i of
\* data; every \w+ is followed by a character that is no word character, so
\* it takes the whole run
PrivMsgAt(data, i) ==
    /\ i < Len(data) /\ CharAt(data, i) = ":"
    /\ IsWordRun(data, i + 1)
    /\ LET e1 == RunEnd(data, i + 1, WordChars)
       IN /\ HasAt(data, e1 + 1, <<"!">>)
          /\ IsWordRun(data, e1 + 2)
          /\ LET e2 == RunEnd(data, e1 + 2, WordChars)
             IN /\ HasAt(data, e2 + 1, <<"@">>)
                /\ IsWordRun(data, e2 + 2)
                /\ LET e3 == RunEnd(data, e2 + 2, WordChars)
                   IN /\ HasAt(data, e3 + 1, TmiPrivmsg)
                      /\ IsWordRun(data, e3 + 1 + Len(TmiPrivmsg))
                      /\ LET e4 == RunEnd(data, e3 + 1 + Len(TmiPrivmsg), WordChars)
                         IN /\ HasAt(data, e4 + 1, <<" ", ":">>)
                            /\ e4 + 3 < Len(data)

\* match[1] and match[2] of the match at index i
PrivMsgUser(data, i) == Slice(data, i + 1, RunEnd(data, i + 1, WordChars) + 1)
PrivMsgText(data, i) ==
    LET e1 == RunEnd(data, i + 1, WordChars)
        e2 == RunEnd(data, e1 + 2, WordChars)
        e3 == RunEnd(data, e2 + 2, WordChars)
        e4 == RunEnd(data, e3 + 1 + Len(TmiPrivmsg), WordChars)
    IN Drop(data, e4 + 3)

DefaultColors ==
    <<"#FF0000", "#0000FF", "#00FF00", "#B22222", "#FF7F50", "#9ACD32", "#FF4500", "#2E8B57",
      "#DAA520", "#D2691E", "#5F9EA0", "#1E90FF", "#FF69B4", "#8A2BE2", "#00FF7F">>

MaxNameLen == 5

\* A JavaScript number that holds an integer, kept as hi * Base + lo with lo
\* in 0..Base-1, so that every part stays within 32 bits
Base == 65536
Wide(hi, l) == [hi |-> hi + (l \div Base), lo |-> l % Base]

\* hash << 5: the low 32 bits of hash, shifted, read as a signed 32-bit value
ShiftLeft5(h) ==
    LET lo32 == h.lo * 32
        hi16 == ((h.hi % Base) * 32 + (lo32 \div Base)) % Base
    IN [hi |-> IF hi16 >= Base \div 2 THEN hi16 - Base ELSE hi16, lo |-> lo32 % Base]

\* username.charCodeAt(i) + ((hash << 5) - hash)
HashStep(h, code) == Wide(ShiftLeft5(h).hi - h.hi, ShiftLeft5(h).lo - h.lo + code)

RECURSIVE HashOf(_, _)
\* the loop over the characters of username, from hash on
HashOf(hash, username) ==
    IF username = <<>> THEN hash
    ELSE LET next == CHOOSE h \in {HashStep(hash, CharCode(Head(username)))} : TRUE
         IN HashOf(next, Tail(username))

\* Math.abs(hash)
AbsNone(h) == h
Abs(h) == IF h.hi < 0 THEN Wide(-h.hi, -h.lo) ELSE h

\* h % m of JavaScript: the result has the sign of h
Remainder(h, m) ==
    IF h.hi < 0
    THEN -(((Wide(-h.hi, -h.lo).hi % m) * (Base % m) + Wide(-h.hi, -h.lo).lo) % m)
    ELSE ((h.hi % m) * (Base % m) + h.lo) % m

\* const colorIndex = Math.abs(hash) % defaultColors.length
ColorIndex(username) == Remainder(Abs(HashOf(Wide(0, 0), username)), Len(DefaultColors))

\* defaultColors[colorIndex]
ColorAt(index) ==
    IF index \in 0..(Len(DefaultColors) - 1) THEN DefaultColors[index + 1] ELSE "undefined"

\* twitchService.ts generateDefaultColor and ChatMessage.svelte
\* generateUserColor
generateDefaultColor(username) == ColorAt(ColorIndex(username))
generateUserColor(username) == ColorAt(ColorIndex(username))

RedTag == <<"#", "F", "F", "0", "0", "0", "0">>

\* the colors the tags of the model carry, as the strings of DefaultColors
ColorOf(chars) == IF chars = RedTag THEN "#FF0000" ELSE "#00FF00"

NoMessage == [null |-> TRUE]

\* parsePrivMsg(line); the id and the timestamp of the message are left out
parsePrivMsg(line) ==
    LET data == MessageData(line)
        starts == {i \in 0..(Len(data) - 1) : PrivMsgAt(data, i)}
    IN IF starts = {} THEN NoMessage
       ELSE LET username == PrivMsgUser(data, Least(starts))
            IN [username |-> IF TagValue(line, DisplayNameKey) # <<>>
                             THEN TagValue(line, DisplayNameKey) ELSE username,
                message |-> PrivMsgText(data, Least(starts)),
                userColor |-> IF TagValue(line, ColorKey) # <<>>
                              THEN ColorOf(TagValue(line, ColorKey))
                              ELSE generateDefaultColor(username)]

(***************************************************************************)
(* The IRC lines the parser is given.                                      *)
(***************************************************************************)
TagStrings ==
    {<<>>,
     <<"c", "o", "l", "o", "r", "=", "#", "F", "F", "0", "0", "0", "0", ";", "d", "i", "s",
      "p", "l", "a", "y", "-", "n", "a", "m", "e", "=", "B", "o", "b">>,
     <<"c", "o", "l", "o", "r", "=", ";", "d", "i", "s", "p", "l", "a", "y", "-", "n", "a",
      "m", "e", "=">>,
     <<"d", "i", "s", "p", "l", "a", "y", "-", "n", "a", "m", "e", "=", "B", "o", "b">>,
     <<"b", "a", "d", "g", "e", "s", "=", "a", "=", "b", ";", "c", "o", "l", "o", "r", "=",
      "#", "0", "0", "F", "F", "0", "0", ";", "c", "o", "l", "o", "r">>}
Users == {u \in {<<"b", "o", "b">>, <<"a", "_", "1">>} : Len(u) <= MaxNameLen}
Hosts ==
    {<<"x">>,
     <<"b", "o", "b", ".", "t", "m", "i", ".", "t", "w", "i", "t", "c", "h", ".", "t", "v">>,
     <<"x", ".", "t", "m", "i", ".", "t", "w", "i", "t", "c", "h", ".", "t", "v">>}
Channels == {<<"c">>, <<"m", "y", "_", "c">>}
MessageTexts == {<<>>, <<"h", "i">>, <<"h", "i", " ", ":", "y", "o", "u">>}

PrivMsgLine(tags, user, host, channel, text) ==
    (IF tags = <<>> THEN <<>> ELSE <<"@">> \o tags \o <<" ">>)
        \o <<":">> \o user \o <<"!">> \o user \o <<"@">> \o host
        \o <<" ", "P", "R", "I", "V", "M", "S", "G", " ", "#">>
        \o channel \o <<" ", ":">> \o text

Lines ==
    {PrivMsgLine(tags, user, host, channel, text) :
        tags \in TagStrings, user \in Users, host \in Hosts, channel \in Channels,
        text \in MessageTexts}

IRCIdle ==
    /\ ircLine = <<>>
    /\ ircMessage = NoMessage
    /\ ircDone = FALSE

IRCInit ==
    /\ ircLine \in Lines
    /\ ircMessage = NoMessage
    /\ ircDone = FALSE

\* const message = this.parsePrivMsg(line)
TWParsePrivMsg ==
    /\ ~ircDone
    /\ ircDone' = TRUE
    /\ ircMessage' = parsePrivMsg(ircLine)
    /\ UNCHANGED <<ircLine, storeVars, ytVars, ccVars, lgVars, beVars, kkVars, rnVars, colVars, stVars,
                   twVars, ftVars, emVars>>

(***************************************************************************)
(* The usernames the color functions are given, and their calls.           *)
(***************************************************************************)
MaxCalls == 3
NameChars == {"a", "z", "_"}
Alice == <<"a", "l", "i", "c", "e">>
LongNames == {Alice, Rep("z", 7), Rep("z", 8), Rep("~", 12)}
Names == {<<>>} \cup SeqsUpTo(NameChars, MaxNameLen) \cup LongNames

\* hash << 5 has lost bits somewhere in the loop over username
RECURSIVE Overflows(_, _)
Overflows(hash, username) ==
    IF username = <<>> THEN FALSE
    ELSE \/ ShiftLeft5(hash) # Wide(hash.hi * 32, hash.lo * 32)
         \/ LET next == CHOOSE h \in {HashStep(hash, CharCode(Head(username)))} : TRUE
            IN Overflows(next, Tail(username))

COLIdle ==
    /\ colName = <<>>
    /\ colCalls = <<>>

COLInit ==
    /\ colName \in Names
    /\ colCalls = <<>>

Call(fn, username, color) ==
    [fn |-> fn, index |-> ColorIndex(username), color |-> color]

\* userColor = this.generateDefaultColor(username)
TWGenerateDefaultColor ==
    /\ Len(colCalls) < MaxCalls
    /\ colCalls' = Append(colCalls, Call("generateDefaultColor", colName,
                                         generateDefaultColor(colName)))
    /\ UNCHANGED <<colName, storeVars, ytVars, ccVars, lgVars, beVars, kkVars, rnVars, ircVars, stVars,
                   twVars, ftVars, emVars>>

\* let mentionColor = generateUserColor(...)
CMGenerateUserColor ==
    /\ Len(colCalls) < MaxCalls
    /\ colCalls' = Append(colCalls, Call("generateUserColor", colName,
                                         generateUserColor(colName)))
    /\ UNCHANGED <<colName, storeVars, ytVars, ccVars, lgVars, beVars, kkVars, rnVars, ircVars, stVars,
                   twVars, ftVars, emVars>>

(***************************************************************************)
(* chatStore.addMessages and chatStore.addMessage statement by statement:  *)
(* the callback of messages.update works on an array of its own and the    *)
(* store takes the array it returns. A reader (a subscriber, the derived   *)
(* store recentMessages) may look at the store between any two statements. *)
(***************************************************************************)
NoCall == [kind |-> "none", batch |-> <<>>]
NoView == <<[id |-> 0, ts |-> 0, c |-> 0]>>

\* stores the program can hold: empty, two and three entries with tied
\* timestamps, 99 entries, a full window
TieStore == AddMessagesFn(<<>>, <<[id |-> 1, ts |-> 2, c |-> 1], [id |-> 2, ts |-> 2, c |-> 2]>>)
BulkStore == AddMessagesFn(<<>>, Stamp(Bulk, 0))
FullStore == AddMessageFn(BulkStore, [id |-> 1, ts |-> 3, c |-> 1])
StepStores ==
    {<<>>, TieStore, BulkStore, FullStore}
        \cup {AddMessageFn(<<>>, Stamp(<<m>>, 0)[1]) : m \in Shape}

StepCalls ==
    {[kind |-> "addMessage", batch |-> Stamp(<<m>>, 1)] : m \in Shape}
        \cup {[kind |-> "addMessages", batch |-> Stamp(b, 1)] : b \in Batches}

\* what a reader of the store gets while the callback works on local
VisibleLocal(stored, local) == local
Visible(stored, local) == stored

STIdle ==
    /\ stPc = "idle"
    /\ stCall = NoCall
    /\ stLocal = <<>>
    /\ stBefore = <<>>
    /\ stEvicted = <<>>
    /\ stObserved = NoView
    /\ stObservedAt = "never"

\* messages.update(msgs => { const merged = [...msgs, ...newMessages] and
\* messages.update(msgs => { const filtered = msgs.filter(m => m.id !== message.id)
STCall ==
    /\ stPc = "idle"
    /\ \E call \in StepCalls :
           /\ stCall' = call
           /\ stLocal' = IF call.kind = "addMessages" THEN messages \o call.batch
                         ELSE FilterOutId(messages, call.batch[1].id)
           /\ stPc' = IF call.kind = "addMessages" THEN "merged" ELSE "filtered"
    /\ stBefore' = messages
    /\ UNCHANGED <<stEvicted, stObserved, stObservedAt, storeVars, ytVars, ccVars, lgVars,
                   beVars, kkVars, rnVars, ircVars, colVars, twVars, ftVars, emVars>>

\* const deduped = Array.from(merged.reduce(...))
STDedup ==
    /\ stPc = "merged"
    /\ stLocal' = DedupById(stLocal)
    /\ stPc' = "updated"
    /\ UNCHANGED <<stCall, stBefore, stEvicted, stObserved, stObservedAt, storeVars, ytVars,
                   ccVars, lgVars, beVars, kkVars, rnVars, ircVars, colVars, twVars, ftVars, emVars>>

\* const updated = [...filtered, message]
STAppend ==
    /\ stPc = "filtered"
    /\ stLocal' = Append(stLocal, stCall.batch[1])
    /\ stPc' = "updated"
    /\ UNCHANGED <<stCall, stBefore, stEvicted, stObserved, stObservedAt, storeVars, ytVars,
                   ccVars, lgVars, beVars, kkVars, rnVars, ircVars, colVars, twVars, ftVars, emVars>>

\* deduped.sort(...) and updated.sort(...)
STSort ==
    /\ stPc = "updated"
    /\ stLocal' = SortByTs(stLocal)
    /\ stPc' = "sorted"
    /\ UNCHANGED <<stCall, stBefore, stEvicted, stObserved, stObservedAt, storeVars, ytVars,
                   ccVars, lgVars, beVars, kkVars, rnVars, ircVars, colVars, twVars, ftVars, emVars>>

\* return deduped.slice(-100) and return updated.slice(-100): the store is
\* set to the array returned
STReturn ==
    /\ stPc = "sorted"
    /\ messages' = Retain(stLocal, RetentionSize)
    /\ stEvicted' = SelectSeq(stLocal, LAMBDA m : m \notin {messages'[i] : i \in 1..Len(messages')})
    /\ stPc' = "returned"
    /\ UNCHANGED <<stCall, stLocal, stBefore, stObserved, stObservedAt, connectionStatus,
                   ops, redelivered, dropped, ytVars, ccVars, lgVars, beVars, kkVars, rnVars,
                   ircVars, colVars, twVars, ftVars, emVars>>

\* derived(messages, ($messages) => $messages.slice(-100)), read at any time
STRead ==
    /\ stObservedAt # stPc
    /\ stObserved' = SliceLast(Visible(messages, stLocal), RetentionSize)
    /\ stObservedAt' = stPc
    /\ UNCHANGED <<stPc, stCall, stLocal, stBefore, stEvicted, storeVars, ytVars, ccVars,
                   lgVars, beVars, kkVars, rnVars, ircVars, colVars, twVars, ftVars, emVars>>

STInit ==
    /\ messages \in StepStores
    /\ connectionStatus = [p \in Platforms |-> FALSE]
    /\ ops = 0
    /\ redelivered = {}
    /\ dropped = 0
    /\ STIdle

(***************************************************************************)
(* The IRC adapter (twitchService.ts): connect, authenticate,              *)
(* handleMessage and disconnect, and the lines a server sends. A socket    *)
(* message is kept as the array data.split('\r\n') gives.                  *)
(***************************************************************************)
MaxEvents == 6

BobNick == <<"b", "o", "b">>
Bob366 == <<"b", "o", "b", "3", "6", "6">>
Nicks == {BobNick, Bob366}

Ping == <<"P", "I", "N", "G">>
JoinNumeric == <<"3", "6", "6">>
Privmsg == <<"P", "R", "I", "V", "M", "S", "G">>
UserNotice == <<"U", "S", "E", "R", "N", "O", "T", "I", "C", "E">>

\* String.prototype.includes, startsWith and trim() === ''
Includes(str, lit) == \E i \in 0..(Len(str) - Len(lit)) : HasAt(str, i, lit)
StartsWith(str, lit) == HasAt(str, 0, lit)
IsBlank(str) == \A i \in 1..Len(str) : str[i] = " "

\* the lines of a server: the welcome after the login, the keep-alive, the
\* end of the names list that confirms a join, chat
WelcomeLine(nick) ==
    <<":", "t", "m", "i", ".", "t", "w", "i", "t", "c", "h", ".", "t", "v", " ", "0", "0",
      "1", " ">> \o nick \o <<" ", ":", "W", "e", "l", "c", "o", "m", "e", ",", " ", "G",
      "L", "H", "F", "!">>
PingLine ==
    <<"P", "I", "N", "G", " ", ":", "t", "m", "i", ".", "t", "w", "i", "t", "c", "h", ".",
      "t", "v">>
JoinConfirmation(nick, channel) ==
    <<":">> \o nick \o <<".", "t", "m", "i", ".", "t", "w", "i", "t", "c", "h", ".", "t",
      "v", " ", "3", "6", "6", " ">> \o nick \o <<" ", "#">> \o channel
      \o <<" ", ":", "E", "n", "d", " ", "o", "f", " ", "/", "N", "A", "M", "E", "S", " ",
           "l", "i", "s", "t">>
TmiHost == <<"x", ".", "t", "m", "i", ".", "t", "w", "i", "t", "c", "h", ".", "t", "v">>
ChatLines ==
    {PrivMsgLine(<<>>, BobNick, TmiHost, <<"c">>, text) :
        text \in {<<"h", "i">>, <<"r", "o", "o", "m", " ", "3", "6", "6">>, UserNotice}}

\* a line of the 366 numeric, whatever nick and channel it names
IsJoinConfirmation(line) ==
    \E nick \in Nicks : line = JoinConfirmation(nick, <<"c">>)

\* what a server sends next, and what it has done once it sent it
ServerData(server, nick) ==
    CASE server = "none" ->
             {[data |-> <<WelcomeLine(nick)>>, server |-> "registered"]}
      [] server = "registered" ->
             {[data |-> <<PingLine>>, server |-> "registered"],
              [data |-> <<JoinConfirmation(nick, <<"c">>)>>, server |-> "joined"]}
      [] OTHER ->
             {[data |-> <<PingLine>>, server |-> "joined"]}
                 \cup {[data |-> <<line>>, server |-> "joined"] : line \in ChatLines}
                 \cup {[data |-> <<PingLine, line, <<>>>>, server |-> "joined"] :
                          line \in ChatLines}

\* the lines authenticate() sends
AuthLines ==
    <<"CAP REQ :twitch.tv/tags", "CAP REQ :twitch.tv/commands", "PASS", "NICK", "JOIN">>

\* id: `twitch-${Date.now()}-${Math.random()}`, timestamp: new Date()
TwitchMessage(n) == [id |-> 200 + n, ts |-> 1, c |-> n]

\* addMessage(message) with the message a parser returned
PushMessage(st) ==
    [st EXCEPT !.msgs = AddMessageFn(@, TwitchMessage(Len(@) + 1)), !.pushed = @ + 1]

\* one round of the loop of handleMessage; parseUserNotice returns a message
\* for every line
HandleLine(st, line) ==
    IF IsBlank(line) THEN st
    ELSE IF StartsWith(line, Ping) THEN [st EXCEPT !.sent = Append(@, "PONG :tmi.twitch.tv")]
    ELSE IF Includes(line, JoinNumeric) THEN [st EXCEPT !.status = TRUE]
    ELSE LET chat == IF Includes(line, Privmsg) /\ parsePrivMsg(line) # NoMessage
                     THEN PushMessage(st) ELSE st
         IN IF st.notices /\ Includes(line, UserNotice) THEN PushMessage(chat) ELSE chat

RECURSIVE HandleLines(_, _)
\* for (const line of lines)
HandleLines(st, lines) ==
    IF lines = <<>> THEN st ELSE HandleLines(HandleLine(st, Head(lines)), Tail(lines))

\* the calls of addMessage in each round of the loop
PushedPerLine(st, lines) ==
    [i \in 1..Len(lines) |->
        LET at == HandleLines(st, SubSeq(lines, 1, i - 1))
        IN HandleLine(at, lines[i]).pushed - at.pushed]

TWIdle ==
    /\ twUsername = BobNick
    /\ twWs = "null"
    /\ twReady = "none"
    /\ twPromise = "none"
    /\ twTimer = FALSE
    /\ twSent = <<>>
    /\ twServer = "none"
    /\ twEvents = 0
    /\ twEvent = "none"
    /\ twData = <<>>
    /\ twPushed = <<>>
    /\ twUserNotices = FALSE
    /\ twConfirmed = FALSE

TWInit ==
    /\ twUsername \in Nicks
    /\ twWs = "null"
    /\ twReady = "none"
    /\ twPromise = "none"
    /\ twTimer = FALSE
    /\ twSent = <<>>
    /\ twServer = "none"
    /\ twEvents = 0
    /\ twEvent = "none"
    /\ twData = <<>>
    /\ twPushed = <<>>
    /\ twUserNotices \in BOOLEAN
    /\ twConfirmed = FALSE

TWOthers == <<messages, ops, redelivered, dropped, ytVars, ccVars, lgVars, beVars, kkVars,
              rnVars, ircVars, colVars, stVars,
              ftVars, emVars>>

\* connect(): this.ws = new WebSocket(...), the handlers, the timer
TWConnect ==
    /\ twReady \in {"none", "closed"}
    /\ twEvents < MaxEvents
    /\ twWs' = "socket"
    /\ twReady' = "connecting"
    /\ twPromise' = "pending"
    /\ twTimer' = TRUE
    /\ twSent' = <<>>
    /\ twServer' = "none"
    /\ twConfirmed' = FALSE
    /\ twEvents' = twEvents + 1
    /\ twEvent' = "connect"
    /\ UNCHANGED <<twUsername, twUserNotices, twData, twPushed, connectionStatus, TWOthers>>

\* ws.onopen: this.authenticate()
TWOnOpen ==
    /\ twReady = "connecting"
    /\ twReady' = "open"
    /\ twSent' = IF twWs = "null" THEN twSent ELSE twSent \o AuthLines
    /\ twEvents' = twEvents + 1
    /\ twEvent' = "open"
    /\ UNCHANGED <<twUsername, twUserNotices, twWs, twPromise, twTimer, twServer, twData, twPushed, twConfirmed,
                   connectionStatus, TWOthers>>

\* ws.onmessage: this.handleMessage(event.data)
TWOnMessage ==
    /\ twReady = "open"
    /\ twEvents < MaxEvents
    /\ "JOIN" \in {twSent[i] : i \in 1..Len(twSent)}
    /\ \E sd \in ServerData(twServer, twUsername) :
           LET before == [status |-> connectionStatus["twitch"], sent |-> twSent,
                          msgs |-> messages, pushed |-> 0, notices |-> twUserNotices]
               st == HandleLines(before, sd.data)
           IN /\ connectionStatus' = SetStatus("twitch", st.status)
              /\ twSent' = st.sent
              /\ messages' = st.msgs
              /\ twServer' = sd.server
              /\ twData' = sd.data
              /\ twPushed' = PushedPerLine(before, sd.data)
              /\ twConfirmed' =
                     (twConfirmed \/ \E i \in 1..Len(sd.data) : IsJoinConfirmation(sd.data[i]))
    /\ twEvents' = twEvents + 1
    /\ twEvent' = "message"
    /\ UNCHANGED <<twUsername, twUserNotices, twWs, twReady, twPromise, twTimer, ops, redelivered, dropped,
                   ytVars, ccVars, lgVars, beVars, kkVars, rnVars, ircVars, colVars, stVars,
                   ftVars, emVars>>

\* ws.onclose: updateConnectionStatus('twitch', false)
TWOnClose ==
    /\ twReady \in {"connecting", "open", "closing"}
    /\ twReady' = "closed"
    /\ connectionStatus' = SetStatus("twitch", FALSE)
    /\ twEvents' = twEvents + 1
    /\ twEvent' = "close"
    /\ UNCHANGED <<twUsername, twUserNotices, twWs, twPromise, twTimer, twSent, twServer, twData, twPushed,
                   twConfirmed, TWOthers>>

\* ws.onerror: updateConnectionStatus('twitch', false); reject(error). The
\* socket closes after an error
TWOnError ==
    /\ twReady \in {"connecting", "open"}
    /\ twReady' = "closing"
    /\ connectionStatus' = SetStatus("twitch", FALSE)
    /\ twPromise' = IF twPromise = "pending" THEN "rejected" ELSE twPromise
    /\ twEvents' = twEvents + 1
    /\ twEvent' = "error"
    /\ UNCHANGED <<twUsername, twUserNotices, twWs, twTimer, twSent, twServer, twData, twPushed, twConfirmed,
                   TWOthers>>

\* the callback of setTimeout(..., 2000)
TWTimeout ==
    /\ twTimer
    /\ twTimer' = FALSE
    /\ twPromise' = IF twWs = "socket" /\ twReady = "open" /\ twPromise = "pending"
                    THEN "resolved" ELSE twPromise
    /\ twEvents' = twEvents + 1
    /\ twEvent' = "timeout"
    /\ UNCHANGED <<twUsername, twUserNotices, twWs, twReady, twSent, twServer, twData, twPushed, twConfirmed,
                   connectionStatus, TWOthers>>

\* disconnect()
TWDisconnect ==
    /\ twEvents < MaxEvents
    /\ twEvent # "disconnect"
    /\ twReady' = IF twWs = "socket" /\ twReady \in {"connecting", "open"}
                  THEN "closing" ELSE twReady
    /\ twWs' = "null"
    /\ connectionStatus' = SetStatus("twitch", FALSE)
    /\ twEvents' = twEvents + 1
    /\ twEvent' = "disconnect"
    /\ UNCHANGED <<twUsername, twUserNotices, twPromise, twTimer, twSent, twServer, twData, twPushed, twConfirmed,
                   TWOthers>>

(***************************************************************************)
(* The requests of the adapters for bootstrap and polling, by call site:   *)
(* connect() and pollMessages() of YouTubeService go through               *)
(* fetchWithTimeout, getChatroomId() of KickService and fetchChannelId()   *)
(* of the TwitchService that loads emotes call fetch. A request is pending *)
(* until the network answers or fails it, which may never happen, or its   *)
(* timer aborts it.                                                        *)
(***************************************************************************)
FetchSites == {"youtube.connect", "youtube.pollMessages", "kick.getChatroomId",
               "twitch.fetchChannelId"}

BootTimeoutMs == 15000
NoTimeout == 0

\* the timeout the call site passes, NoTimeout for a plain fetch
TimeoutOf(site) ==
    IF site \in {"youtube.connect", "youtube.pollMessages"} THEN BootTimeoutMs ELSE NoTimeout

FTIdle ==
    /\ ftState = [site \in FetchSites |-> "idle"]
    /\ ftTimer = [site \in FetchSites |-> FALSE]
    /\ ftAborted = [site \in FetchSites |-> FALSE]

FTOthers == <<storeVars, ytVars, ccVars, lgVars, beVars, kkVars, rnVars, ircVars, colVars,
              stVars, twVars, emVars>>

\* await fetch(...) or await fetchWithTimeout(...): the request goes out,
\* with const id = setTimeout(() => controller.abort(), timeout) in the
\* second case
FTFetch ==
    \E site \in FetchSites :
        /\ ftState[site] # "pending"
        /\ ftState' = [ftState EXCEPT ![site] = "pending"]
        /\ ftTimer' = [ftTimer EXCEPT ![site] = TimeoutOf(site) # NoTimeout]
        /\ ftAborted' = [ftAborted EXCEPT ![site] = FALSE]
        /\ UNCHANGED FTOthers

\* the network answers the request or fails it; clearTimeout(id)
FTSettle ==
    \E site \in FetchSites : \E outcome \in {"answered", "failed"} :
        /\ ftState[site] = "pending"
        /\ ftState' = [ftState EXCEPT ![site] = outcome]
        /\ ftTimer' = [ftTimer EXCEPT ![site] = FALSE]
        /\ UNCHANGED <<ftAborted, FTOthers>>

\* the timer fires: controller.abort() rejects the fetch, the caller's catch
\* block takes it as a failed fetch
FTAbort ==
    \E site \in FetchSites :
        /\ ftState[site] = "pending"
        /\ ftTimer[site]
        /\ ftState' = [ftState EXCEPT ![site] = "failed"]
        /\ ftTimer' = [ftTimer EXCEPT ![site] = FALSE]
        /\ ftAborted' = [ftAborted EXCEPT ![site] = TRUE]
        /\ UNCHANGED FTOthers

(***************************************************************************)
(* The emote part of parsePrivMsg of the Twitch service that loads         *)
(* community emotes: the emotes of the tag first, then the words that are  *)
(* 7TV codes, then the words that are BTTV codes. The tag value is held as *)
(* its entries after split('/'), split(':'), split(',') and                *)
(* split('-').map(Number).                                                 *)
(***************************************************************************)
RECURSIVE SplitSpaces(_)
\* message.split(/(\s+)/): the words and the runs of spaces between them, in
\* order; an empty first or last element adds nothing to idx and is left out
SplitSpaces(str) ==
    IF str = <<>> THEN <<>>
    ELSE LET class == IF Head(str) = " " THEN {" "} ELSE {str[i] : i \in 1..Len(str)} \ {" "}
             e == RunEnd(str, 0, class)
         IN <<SubSeq(str, 1, e + 1)>> \o SplitSpaces(Drop(str, e + 1))

\* for (let i = start; i <= end; i++) twitchEmotePositions.add(i)
TwitchEmotePositions(tag) ==
    UNION {UNION {tag[k].ranges[r].start..tag[k].ranges[r].end : r \in 1..Len(tag[k].ranges)} :
               k \in 1..Len(tag)}

RECURSIVE EntryEmotes(_, _)
\* for (const [start, end] of posArr) emotes.push(...)
EntryEmotes(message, ranges) ==
    IF ranges = <<>> THEN <<>>
    ELSE <<[name |-> Slice(message, Head(ranges).start, Head(ranges).end + 1),
            start |-> Head(ranges).start, end |-> Head(ranges).end, platform |-> "twitch"]>>
             \o EntryEmotes(message, Tail(ranges))

RECURSIVE TagEmotes(_, _)
\* for (const emoteEntry of emoteTag)
TagEmotes(message, tag) ==
    IF tag = <<>> THEN <<>>
    ELSE EntryEmotes(message, Head(tag).ranges) \o TagEmotes(message, Tail(tag))

\* the loop over i from start to end that looks for a position of a Twitch
\* emote
CoversTwitchNever(positions, start, end) == FALSE
CoversTwitch(positions, start, end) == \E i \in start..end : i \in positions

\* emotes.some(e => e.name === word && e.positions[0][0] === start)
AlreadyAdded(emotes, word, start) ==
    \E k \in 1..Len(emotes) : emotes[k].name = word /\ emotes[k].start = start

RECURSIVE WordEmotes(_, _, _, _, _, _)
\* the loop over the words for one provider: idx is the index of the first
\* character of Head(words)
WordEmotes(words, idx, codes, positions, emotes, platform) ==
    IF words = <<>> THEN emotes
    ELSE LET word == Head(words)
             start == idx
             end == idx + Len(word) - 1
             push == /\ ~IsBlank(word)
                     /\ word \in codes
                     /\ ~CoversTwitch(positions, start, end)
                     /\ platform = "bttv" => ~AlreadyAdded(emotes, word, start)
             next == IF push
                     THEN Append(emotes, [name |-> word, start |-> start, end |-> end,
                                          platform |-> platform])
                     ELSE emotes
         IN WordEmotes(Tail(words), idx + Len(word), codes, positions, next, platform)

\* the emotes parsePrivMsg returns
ParseEmotes(message, tag, emoteMap, bttvEmoteMap) ==
    LET positions == TwitchEmotePositions(tag)
        twitch == TagEmotes(message, tag)
        seventv == IF emoteMap # {}
                   THEN WordEmotes(SplitSpaces(message), 0, emoteMap, positions, twitch, "7tv")
                   ELSE twitch
    IN IF bttvEmoteMap # {}
       THEN WordEmotes(SplitSpaces(message), 0, bttvEmoteMap, positions, seventv, "bttv")
       ELSE seventv

\* the messages, tags and emote maps of the model
MaxPieces == 3
Kappa == <<"K", "a", "p", "p", "a">>
Lul == <<"L", "U", "L">>
Pieces == {Kappa, Lul, <<" ">>, <<"h", "i">>}
ChatTexts == {Join(parts) : parts \in SeqsUpTo(Pieces, MaxPieces)}
EmoteRange(start, end) == [start |-> start, end |-> end]
EmoteTags ==
    {<<>>,
     <<[id |-> 25, ranges |-> <<EmoteRange(0, 4)>>]>>,
     <<[id |-> 25, ranges |-> <<EmoteRange(0, 4), EmoteRange(6, 10)>>]>>,
     <<[id |-> 25, ranges |-> <<EmoteRange(0, 4)>>], [id |-> 425, ranges |-> <<EmoteRange(5, 7)>>]>>,
     <<[id |-> 425, ranges |-> <<EmoteRange(1, 2)>>]>>,
     <<[id |-> 25, ranges |-> <<EmoteRange(0, 4)>>], [id |-> 425, ranges |-> <<EmoteRange(3, 5)>>]>>}
EmoteMaps == SUBSET {Kappa, Lul}

EMIdle ==
    /\ emMessage = <<>>
    /\ emTag = <<>>
    /\ emEmoteMap = {}
    /\ emBttvEmoteMap = {}
    /\ emEmotes = <<>>
    /\ emDone = FALSE

EMInit ==
    /\ emMessage \in ChatTexts
    /\ emTag \in EmoteTags
    /\ emEmoteMap \in EmoteMaps
    /\ emBttvEmoteMap \in EmoteMaps
    /\ emEmotes = <<>>
    /\ emDone = FALSE

\* parsePrivMsg(line), from the emote tag to the BTTV loop
TWParseEmotes ==
    /\ ~emDone
    /\ emDone' = TRUE
    /\ emEmotes' = ParseEmotes(emMessage, emTag, emEmoteMap, emBttvEmoteMap)
    /\ UNCHANGED <<emMessage, emTag, emEmoteMap, emBttvEmoteMap, storeVars, ytVars, ccVars,
                   lgVars, beVars, kkVars, rnVars, ircVars, colVars, stVars, twVars, ftVars>>

vars == <<storeVars, ytVars, ccVars, lgVars, beVars, kkVars, restVars>>

Init == StoreInit /\ YTInit /\ CCIdle /\ LGIdle /\ BEIdle /\ KKInit /\ RNIdle /\ IRCIdle /\ COLIdle /\ STIdle /\ TWIdle /\ FTIdle /\ EMIdle

Next ==
    \/ StoreAddMessage
    \/ StoreAddMessages

Spec == Init /\ [][Next]_vars

NextPoll ==
    \/ YTConnect
    \/ YTBootResponse
    \/ YTPollTimer
    \/ YTPollResponse
    \/ YTDisconnect
    \/ YTVisibilityChange

SpecPoll == Init /\ [][NextPoll]_vars

InitContainer == StoreInit /\ YTInit /\ CCInit /\ LGIdle /\ BEIdle /\ KKInit /\ RNIdle /\ IRCIdle /\ COLIdle /\ STIdle /\ TWIdle /\ FTIdle /\ EMIdle

NextContainer ==
    \/ CCConfigSet
    \/ CCConnectResolved
    \/ CCConnectRejected

SpecContainer == InitContainer /\ [][NextContainer]_vars

InitLegacy == StoreInit /\ YTInit /\ CCIdle /\ LGInit /\ BEIdle /\ KKInit /\ RNIdle /\ IRCIdle /\ COLIdle /\ STIdle /\ TWIdle /\ FTIdle /\ EMIdle

NextLegacy ==
    \/ LGPollTimer
    \/ LGPollResponse
    \/ LGVisibilityChange

SpecLegacy == InitLegacy /\ [][NextLegacy]_vars

InitBackend == StoreInit /\ YTInit /\ CCIdle /\ LGIdle /\ BEInit /\ KKInit /\ RNIdle /\ IRCIdle /\ COLIdle /\ STIdle /\ TWIdle /\ FTIdle /\ EMIdle

NextBackend ==
    \/ POST
    \/ BEResponseSent

SpecBackend == InitBackend /\ [][NextBackend]_vars

NextKick ==
    \/ KKConnect
    \/ KKLookupResponse
    \/ KKSocketOpen
    \/ KKSocketMessage
    \/ KKSocketError
    \/ KKSocketClose
    \/ KKSocketReconnect
    \/ KKTimerFires
    \/ KKDisconnect

SpecKick == Init /\ [][NextKick]_vars

\* the connect() of the Kick and of the YouTube service, each up to the point
\* where it resolves or rejects
NextBootstrap ==
    \/ NextKick
    \/ YTConnect
    \/ YTBootResponse
    \/ YTVisibilityChange

SpecBootstrap == Init /\ [][NextBootstrap]_vars

InitRender == StoreInit /\ YTInit /\ CCIdle /\ LGIdle /\ BEIdle /\ KKInit /\ RNInit /\ IRCIdle /\ COLIdle /\ STIdle /\ TWIdle /\ FTIdle /\ EMIdle

NextRender == parseMessageWithMentions

SpecRender == InitRender /\ [][NextRender]_vars

InitIrc == StoreInit /\ YTInit /\ CCIdle /\ LGIdle /\ BEIdle /\ KKInit /\ RNIdle /\ IRCInit /\ COLIdle /\ STIdle /\ TWIdle /\ FTIdle /\ EMIdle

NextIrc == TWParsePrivMsg

SpecIrc == InitIrc /\ [][NextIrc]_vars

InitColor ==
    StoreInit /\ YTInit /\ CCIdle /\ LGIdle /\ BEIdle /\ KKInit /\ RNIdle /\ IRCIdle /\ COLInit /\ STIdle /\ TWIdle /\ FTIdle /\ EMIdle

NextColor ==
    \/ TWGenerateDefaultColor
    \/ CMGenerateUserColor

SpecColor == InitColor /\ [][NextColor]_vars

InitSteps ==
    STInit /\ YTInit /\ CCIdle /\ LGIdle /\ BEIdle /\ KKInit /\ RNIdle /\ IRCIdle /\ COLIdle
        /\ TWIdle /\ FTIdle /\ EMIdle

NextSteps ==
    \/ STCall
    \/ STDedup
    \/ STAppend
    \/ STSort
    \/ STReturn
    \/ STRead

SpecSteps == InitSteps /\ [][NextSteps]_vars

InitTwitch ==
    StoreInit /\ YTInit /\ CCIdle /\ LGIdle /\ BEIdle /\ KKInit /\ RNIdle /\ IRCIdle /\ COLIdle
        /\ STIdle /\ TWInit /\ FTIdle /\ EMIdle

NextTwitch ==
    \/ TWConnect
    \/ TWOnOpen
    \/ TWOnMessage
    \/ TWOnClose
    \/ TWOnError
    \/ TWTimeout
    \/ TWDisconnect

SpecTwitch == InitTwitch /\ [][NextTwitch]_vars

\* the callback of setTimeout runs once its delay has passed; whether and
\* when the socket opens, fails or closes is up to the network
SpecTwitchFair == InitTwitch /\ [][NextTwitch]_vars /\ WF_vars(TWTimeout)

InitFetch ==
    StoreInit /\ YTInit /\ CCIdle /\ LGIdle /\ BEIdle /\ KKInit /\ RNIdle /\ IRCIdle /\ COLIdle
        /\ STIdle /\ TWIdle /\ FTIdle /\ EMIdle

NextFetch ==
    \/ FTFetch
    \/ FTSettle
    \/ FTAbort

SpecFetch == InitFetch /\ [][NextFetch]_vars

InitEmotes ==
    StoreInit /\ YTInit /\ CCIdle /\ LGIdle /\ BEIdle /\ KKInit /\ RNIdle /\ IRCIdle /\ COLIdle
        /\ STIdle /\ TWIdle /\ FTIdle /\ EMInit

NextEmotes == TWParseEmotes

SpecEmotes == InitEmotes /\ [][NextEmotes]_vars

(***************************************************************************)
(* C1: after any sequence of addMessage and addMessages calls the view is  *)
(* sorted by timestamp ascending and holds at most 100 messages.           *)
(***************************************************************************)
SortedByTs(s) == \A i \in 1..(Len(s) - 1) : s[i].ts <= s[i + 1].ts

NoDuplicateIds(s) == Cardinality(IdsOf(s)) = Len(s)

\* the claim as stated: exactly one entry, after addMessage and addMessages
C2_ExactlyOneOriginal ==
    /\ NoDuplicateIds(recentMessages)
    /\ \A r \in redelivered :
          LET w == WithId(recentMessages, r.id) IN Len(w) = 1 /\ w[1].c = r.c

\* amended: at most one entry with the id, the newly added message; the
\* entry is missing only when the call overflowed the window and cut it off
C2_ReplacedByNewest ==
    /\ NoDuplicateIds(recentMessages)
    /\ \A r \in redelivered :
          LET w == WithId(recentMessages, r.id)
          IN \/ Len(w) = 1 /\ w[1].c = r.c
             \/ w = <<>> /\ dropped > 0

\* a call re-delivered a stored id
C2_Witness ==
    /\ redelivered # {}
    /\ \E r \in redelivered : WithId(recentMessages, r.id) # <<>>

(***************************************************************************)
(* C3: when the polling adapter processes the same batch of chat actions   *)
(* twice, the store holds no more than one entry per chat item.            *)
(***************************************************************************)
ItemKeys == {1, 2, 3}

C3_OneEntryPerItem ==
    \A k \in ItemKeys : Len(SelectSeq(messages, LAMBDA m : m.c = k)) <= 1

(***************************************************************************)
(* C4: after disconnect() has returned the adapter performs no further     *)
(* store mutation and never sets its platform's status to connected.       *)
(***************************************************************************)
C4_QuietAfterDisconnect ==
    [][ytDisconnected => (messages' = messages /\ ~connectionStatus'["youtube"])]_vars

(***************************************************************************)
(* C5: after disconnect() has returned no poll timer remains armed, the    *)
(* cursor state is not restored by a late response and no further poll     *)
(* request is issued.                                                      *)
(***************************************************************************)
C5_NoResurrection ==
    ytDisconnected => (ytTimers = 0 /\ ytContinuation = "" /\ ~ytPolledAfterDisc)

C10_CursorPassedUnchanged ==
    /\ \A i \in 1..Len(ytInflight) :
          ytInflight[i].kind = "poll" => ytInflight[i].cont = ytInflight[i].last
    /\ ytUpstream.received # "" => ytUpstream.forwarded = ytUpstream.received

\* a poll succeeded without a new cursor and the held cursor is sent again
C10_Witness ==
    /\ ytLastError = ""
    /\ ~ytDisconnected
    /\ \E i \in 1..Len(ytInflight) :
          /\ ytInflight[i].kind = "poll"
          /\ ytInflight[i].cont = ytUpstream.received
          /\ ytInflight[i].cont # InitialContinuation

(***************************************************************************)
(* C6: no adapter blocks another: when the subscriber has returned, the    *)
(* connect() of every platform of its config has been called, whether or   *)
(* not the connect() of another platform failed.                           *)
(***************************************************************************)
C6_AllConfiguredStarted ==
    \A r \in 1..Len(ccRuns) :
        ccRuns[r].pc = "done" =>
            \A p \in Platforms : Wanted(ccRuns[r].cfg, p) => ccAdapters[r][p] # "none"

(***************************************************************************)
(* C8: a failed poll or a sustained run of empty polls never makes the     *)
(* polling interval smaller and, below the largest interval, makes it      *)
(* larger; a poll that brings messages never makes it larger.              *)
(***************************************************************************)
C8_AdaptiveInterval ==
    /\ lgEvent \in {"failed", "sustainedEmpty"} =>
           /\ lgPollingIntervalMs >= lgPrevIntervalMs
           /\ lgPrevIntervalMs < Ms(QuotaIntervalMs) => lgPollingIntervalMs > lgPrevIntervalMs
    /\ lgEvent = "active" => lgPollingIntervalMs <= lgPrevIntervalMs

(***************************************************************************)
(* C9: when the page becomes hidden the polling interval is not narrower   *)
(* than it was while the page was visible.                                 *)
(***************************************************************************)
C9_HiddenWidens == lgEvent = "hidden" => lgPollingIntervalMs >= lgPrevIntervalMs

(***************************************************************************)
(* C11: every response of the backend has HTTP status 200; a response of a *)
(* failure path carries an error and no messages, and a response with      *)
(* decoded chat carries no error field.                                    *)
(***************************************************************************)
C11_AlwaysOkStatus ==
    beResponse # NoResponse =>
        /\ beResponse.status = OkStatus
        /\ \/ beResponse.error # Absent /\ beResponse.messages = <<>>
                 /\ "emoteMap" \notin DOMAIN beResponse
           \/ beResponse.error = Absent /\ beUpstream # ""
                 /\ ~extractMinimalChatMessages(beVariant, beActions, <<>>, <<>>, 900, 5).thrown

C11_Witness ==
    /\ beResponse # NoResponse
    /\ beResponse.error = "Failed to fetch chat messages"
    /\ beActions # <<>>
    /\ beLiveChatInstances # NoInfo

(***************************************************************************)
(* C12: once a response has carried a "no live content" or a parser error  *)
(* the adapter issues no further request: no timer is armed and no poll is *)
(* in flight; after a failed fetch below the failure limit a timer for the *)
(* next poll is armed.                                                     *)
(***************************************************************************)
NonRetryable ==
    {"No chat data available", "Could not get live chat information.",
     "parser is out of date", "No live streams found"}

C12_NonRetryableNotRetried ==
    /\ ytLastError \in NonRetryable => (ytTimers = 0 /\ ytInflight = <<>>)
    /\ (ytLastError = "fetch failed" /\ ytPhase = "resolved" /\ ~ytDisconnected
            /\ ~RetriesExhausted(ytRetryCount)) => ytTimers > 0

(***************************************************************************)
(* C13: a failed bootstrap is surfaced by the rejection of connect() and   *)
(* the adapter never enters steady state. Polling adapter: connect() has   *)
(* rejected whenever the response carried an error or lacked the video id  *)
(* or the cursor, the status is disconnected, no poll is in flight and no  *)
(* timer armed. Pub/sub adapter: when the lookup gave no chatroom id the   *)
(* status is disconnected, no socket exists and no subscribe frame was     *)
(* sent.                                                                   *)
(***************************************************************************)
C13_BootstrapFailure ==
    /\ ytPhase = "rejected" =>
           /\ ~connectionStatus["youtube"]
           /\ ytTimers = 0
           /\ ytInflight = <<>>
           /\ ytLastError # ""
    /\ (ytPhase = "resolved" /\ ~ytDisconnected) => (ytVideoId # "" /\ ytContinuation # "")
    /\ (kkPhase \in {"socket", "resolved"}) => kkChatroomId # 0
    /\ (kkPhase = "rejected" /\ kkChatroomId = 0) =>
           /\ ~connectionStatus["kick"]
           /\ kkWs = "none"
           /\ kkFrames = 0
           /\ ~kkTimer

C13_Witness ==
    /\ ytPhase = "rejected"
    /\ ytVideoId = "v"
    /\ ytContinuation = ""
    /\ kkPhase = "rejected"
    /\ kkChatroomId = 0

(***************************************************************************)
(* C14: a malformed chat action inside an otherwise good batch is skipped: *)
(* whenever the batch the upstream call returned holds a well-formed chat  *)
(* item, the response carries no error and delivers messages.              *)
(***************************************************************************)
C14_MalformedSkipped ==
    (beResponse # NoResponse /\ \E i \in 1..Len(beActions) : Decodable(beActions[i])) =>
        (beResponse.error = Absent /\ beResponse.messages # <<>>)

(***************************************************************************)
(* C15: the decoder returns the messages of the first decodable            *)
(* add-chat-item actions in their order, at most 50; actions of unknown    *)
(* kind and items of unknown type give no message and no error.            *)
(***************************************************************************)
IsChatItem(action) ==
    action.kind \in {"add", "alt"} /\ action.item.type \in {"text", "paid", "member"}
ChatItemIndexes(actions) == {i \in 1..Len(actions) : IsChatItem(actions[i])}
\* the index of the k-th chat item of the batch
NthChatItem(actions, k) ==
    CHOOSE i \in ChatItemIndexes(actions) :
        Cardinality({j \in ChatItemIndexes(actions) : j <= i}) = k
ExpectedId(actions, i) == IF actions[i].item.rid # 0 THEN actions[i].item.rid ELSE 900 + i
WellFormed(actions) ==
    \A i \in 1..Len(actions) :
        actions[i].kind # "null" /\ (IsChatItem(actions[i]) => ~actions[i].item.malformed)

C16_TruncatedToLimit ==
    beResponse # NoResponse =>
        \A k \in 1..Len(beResponse.messages) :
            LET text == beResponse.messages[k].message
            IN /\ Len(text) <= 301
               /\ Len(text) = 301 => text[301] = Ellipsis[1]

(***************************************************************************)
(* C20: an emoji run without a resolvable image and with the name n adds   *)
(* the text :n: to the message and moves the cursor by Len(n) + 2; an      *)
(* emoji run with an image moves the cursor by exactly 1. Stated on the    *)
(* answers that carry the message of one text item: the message of an      *)
(* item without image emoji is the concatenation of its text runs and of   *)
(* :n: for its emoji runs, and every emote starts at the sum of the widths *)
(* of the runs before it.                                                  *)
(***************************************************************************)
DisplayName(emoji) ==
    IF emoji.shortcut # <<>> THEN emoji.shortcut
    ELSE IF emoji.emojiId # <<>> THEN emoji.emojiId ELSE EmojiWord
HasImage(emoji, emojis) ==
    \/ emoji.thumb # <<>>
    \/ \E i \in 1..Len(emojis) :
           /\ emojis[i].thumb # <<>>
           /\ ({DisplayName(emoji), emoji.emojiId}
                   \cap ({emojis[i].shortcut, emojis[i].emojiId} \ {<<>>})) # {}
IsEmojiRun(run) == run.text = <<>> /\ run.emoji # NoEmoji
RunWidth(run, emojis) ==
    IF run.text # <<>> THEN Len(run.text)
    ELSE IF ~IsEmojiRun(run) THEN 0
    ELSE IF HasImage(run.emoji, emojis) THEN 1
    ELSE Len(DisplayName(run.emoji)) + 2
RunText(run) ==
    IF run.text # <<>> THEN run.text
    ELSE IF ~IsEmojiRun(run) THEN <<>>
    ELSE Colon \o DisplayName(run.emoji) \o Colon
RECURSIVE WidthOf(_, _)
WidthOf(runs, emojis) ==
    IF runs = <<>> THEN 0
    ELSE RunWidth(Head(runs), emojis) + WidthOf(Tail(runs), emojis)
RECURSIVE TextOf(_)
TextOf(runs) == IF runs = <<>> THEN <<>> ELSE RunText(Head(runs)) \o TextOf(Tail(runs))
ImageRuns(runs, emojis) ==
    SelectSeq([i \in 1..Len(runs) |-> i],
              LAMBDA i : IsEmojiRun(runs[i]) /\ HasImage(runs[i].emoji, emojis))

C20_EmojiRunCursor ==
    (/\ beResponse # NoResponse
     /\ beResponse.error = Absent
     /\ Len(beActions) = 1
     /\ beActions[1].kind = "add"
     /\ beActions[1].item.type = "text") =>
        LET runs == beActions[1].item.runs
            emojis == beLiveChatInstances.emojis
            m == beResponse.messages[1]
            images == ImageRuns(runs, emojis)
        IN /\ (images = <<>> /\ Len(TextOf(runs)) <= 300) => m.message = TextOf(runs)
           /\ Len(m.emotes) = Len(images)
           /\ \A k \in 1..Len(images) :
                  /\ m.emotes[k].start = WidthOf(SubSeq(runs, 1, images[k] - 1), emojis)
                  /\ m.emotes[k].end = m.emotes[k].start + 1

(***************************************************************************)
(* C17: the tokenizer gives priority emote > link > mention. Every emote   *)
(* is a token; a link found in the text is a token exactly if it           *)
(* intersects no emote, a mention exactly if it intersects no emote and no *)
(* link; a range that is dropped gives no token at all, and no two tokens  *)
(* of different kinds intersect.                                           *)
(***************************************************************************)
TokensOf(type) == SelectSeq(rnAllRanges, LAMBDA t : t.type = type)
Intersects(a, b) == ~(a.end < b.start \/ b.end < a.start)
IsToken(type, range) ==
    \E k \in 1..Len(rnAllRanges) :
        /\ rnAllRanges[k].type = type
        /\ rnAllRanges[k].start = range.start
        /\ rnAllRanges[k].end = range.end

C18_HelloBob ==
    (rnDone /\ rnText = HelloBobHttp /\ rnEmotes = <<>>) =>
        /\ Len(TokensOf("mention")) = 1
        /\ Len(TokensOf("link")) = 1
        /\ rnResult = <<Piece("text", <<"h", "e", "l", "l", "o", " ">>, <<>>),
                        Piece("span", <<"@", "b", "o", "b">>, <<>>),
                        Piece("text", <<" ">>, <<>>),
                        Piece("a", <<"h", "t", "t", "p", ":", "/", "/", "x">>,
                              <<"h", "t", "t", "p", ":", "/", "/", "x">>)>>

(***************************************************************************)
(* C19: the IRC line                                                       *)
(*   @color=#FF0000;display-name=Bob :bob!bob@x PRIVMSG #c :hi             *)
(* gives a message with username "Bob", color "#FF0000" and text "hi".     *)
(***************************************************************************)
ExampleLine ==
    PrivMsgLine(<<"c", "o", "l", "o", "r", "=", "#", "F", "F", "0", "0", "0", "0", ";",
                  "d", "i", "s", "p", "l", "a", "y", "-", "n", "a", "m", "e", "=", "B", "o", "b">>,
                <<"b", "o", "b">>, <<"x">>, <<"c">>, <<"h", "i">>)

C19_ExampleLine ==
    (ircDone /\ ircLine = ExampleLine) =>
        ircMessage = [username |-> <<"B", "o", "b">>, userColor |-> "#FF0000",
                      message |-> <<"h", "i">>]

(***************************************************************************)
(* C21: the color of a username is deterministic: every call, of either    *)
(* function, gives the same entry of the palette of 15 colors, and the     *)
(* index computed is within 0..14, also when hash << 5 overflows 32 bits.  *)
(***************************************************************************)
C21_ColorDeterministic ==
    \A k \in 1..Len(colCalls) :
        /\ colCalls[k].index \in 0..14
        /\ colCalls[k].color = DefaultColors[colCalls[k].index + 1]
        /\ colCalls[k].color = colCalls[1].color

C21_Witness ==
    /\ Len(colCalls) = MaxCalls
    /\ Overflows(Wide(0, 0), colName)
    /\ HashOf(Wide(0, 0), colName).hi < 0
    /\ \E j, k \in 1..Len(colCalls) : colCalls[j].fn # colCalls[k].fn

(***************************************************************************)
(* C22: a call of addMessage or addMessages reaches the store as one       *)
(* transition: whenever a reader looks, also between two statements of the *)
(* call, the view it gets is the view before the call or the view after    *)
(* the whole call; it is sorted, has no duplicate ids and at most 100      *)
(* entries.                                                                *)
(***************************************************************************)
CallResult ==
    IF stCall.kind = "addMessages" THEN AddMessagesFn(stBefore, stCall.batch)
    ELSE AddMessageFn(stBefore, stCall.batch[1])

C23_FirstSeenWins ==
    stPc = "returned" =>
        \A k \in 1..Len(stCall.batch) :
            LET first == WithId(stBefore, stCall.batch[k].id)
                kept == WithId(messages, stCall.batch[k].id)
            IN (first # <<>> /\ kept # <<>>) => (Len(kept) = 1 /\ kept[1] = first[1])

PosOf(s, id) == CHOOSE i \in 1..Len(s) : s[i].id = id

C25_TiesKeepInsertionOrder ==
    stPc = "returned" =>
        \A k \in 1..Len(stCall.batch) : \A j \in 1..Len(stBefore) :
            LET a == stCall.batch[k].id
                b == stBefore[j].id
                ts == stBefore[j].ts
            IN (/\ a # b
                /\ WithId(stBefore, a) # <<>> /\ WithId(stBefore, a)[1].ts = ts
                /\ WithId(messages, a) # <<>> /\ WithId(messages, a)[1].ts = ts
                /\ WithId(messages, b) # <<>> /\ WithId(messages, b)[1].ts = ts)
                   => (PosOf(stBefore, a) < j <=> PosOf(messages, a) < PosOf(messages, b))

(***************************************************************************)
(* C26: the status of the IRC adapter is connected only when a join        *)
(* confirmation (the 366 numeric) has been received on the open socket,    *)
(* never before the join, and after every socket close or error the        *)
(* status is disconnected.                                                 *)
(***************************************************************************)
C26_ConnectedOnlyAfterJoin ==
    /\ connectionStatus["twitch"] => (twConfirmed /\ twReady = "open")
    /\ twEvent \in {"close", "error"} => ~connectionStatus["twitch"]

(***************************************************************************)
(* C27: after every completed poll of the polling adapter the status of    *)
(* its platform equals the outcome of that poll: disconnected after a      *)
(* failed poll, connected again after the next successful one.             *)
(***************************************************************************)
\* a step in which pollMessages() runs to its end after its await
PollCompleted == ytPhase' = ytPhase /\ Len(ytInflight') = Len(ytInflight) - 1
\* the poll that ended in the step went through without an error
PollWasOk == ytConsecFails' = 0

C27_StatusFollowsPoll ==
    [][PollCompleted => (connectionStatus'["youtube"] <=> PollWasOk)]_vars

\* a poll has failed and a later poll has succeeded
C27_Witness ==
    /\ ytRetryCount >= 1
    /\ ytConsecFails = 0
    /\ ytLastError = ""
    /\ ~ytDisconnected
    /\ connectionStatus["youtube"]

(***************************************************************************)
(* C28: every request an adapter makes for bootstrap or polling is bounded *)
(* by an explicit timeout: while the request is pending a timer is armed   *)
(* that aborts it, so that the caller does not wait forever.               *)
(***************************************************************************)
C28_RequestsHaveTimeout ==
    \A site \in FetchSites : ftState[site] = "pending" => ftTimer[site]

(***************************************************************************)
(* C29: in every message the polling decoder produces, the inclusive       *)
(* position ranges of any two of its emotes do not overlap, also for two   *)
(* image emoji that follow each other.                                     *)
(***************************************************************************)
C29_EmoteRangesDisjoint ==
    beResponse # NoResponse =>
        \A k \in 1..Len(beResponse.messages) :
            LET emotes == beResponse.messages[k].emotes
            IN \A i, j \in 1..Len(emotes) : i # j => ~Intersects(emotes[i], emotes[j])

(***************************************************************************)
(* C30: in every reachable state of the polling adapter the polling        *)
(* interval lies between a fixed minimum and a fixed maximum: the floor of *)
(* the server hint, 3000 ms, and the largest interval the adapter sets of  *)
(* its own, 60000 ms.                                                      *)
(***************************************************************************)
C30_IntervalWithinBounds ==
    /\ lgPollingIntervalMs >= Ms(HintFloorMs)
    /\ lgPollingIntervalMs <= Ms(QuotaIntervalMs)

(***************************************************************************)
(* C31: the failure count of the polling adapter counts consecutive        *)
(* failures: polling is halted by the retry limit only when the five most  *)
(* recent polls have all failed.                                           *)
(***************************************************************************)
C31_ConsecutiveFailuresOnly ==
    RetriesExhausted(ytRetryCount) => ytConsecFails >= maxRetries

(***************************************************************************)
(* C32: a poll that starts while the cursor or the video id is empty       *)
(* issues no request, sets the status to disconnected and records a last   *)
(* error; after it no poll is scheduled or in flight, polling has ended    *)
(* for the session.                                                        *)
(***************************************************************************)
\* a step in which the timer fires and pollMessages() finds the cursor state
\* missing
PollStartsEmpty ==
    /\ ytTimers' = ytTimers - 1
    /\ ytDisconnected' = ytDisconnected
    /\ (ytContinuation = "" \/ ytVideoId = "")

C32_MissingCursorEndsPolling ==
    /\ [][PollStartsEmpty => (/\ ytInflight' = ytInflight
                              /\ ~connectionStatus'["youtube"]
                              /\ ytLastError' # "")]_vars
    /\ [](ytLastError = "missing" =>
             (ytTimers = 0 /\ ytInflight = <<>> /\ ~connectionStatus["youtube"]))

\* the guard of pollMessages() has stopped a poll
C32_Witness == ytLastError = "missing" /\ ytDisconnected /\ ytTimers = 0

(***************************************************************************)
(* C33: in every message the polling decoder produces, no start or end     *)
(* offset of an emote exceeds the length of the final, truncated message.  *)
(***************************************************************************)
C33_PositionsWithinMessage ==
    beResponse # NoResponse =>
        \A k \in 1..Len(beResponse.messages) :
            LET m == beResponse.messages[k]
            IN \A i \in 1..Len(m.emotes) :
                   m.emotes[i].start <= Len(m.message) /\ m.emotes[i].end <= Len(m.message)

(***************************************************************************)
(* C34: for a chat message whose protocol emote ranges are pairwise        *)
(* disjoint, no two emotes of the final list share a position: no token of *)
(* a community provider covers a character of a protocol emote range, and  *)
(* the two providers never both give a token at one position.              *)
(***************************************************************************)
ProtocolDisjoint ==
    \A i, j \in 1..Len(emEmotes) :
        (i # j /\ emEmotes[i].platform = "twitch" /\ emEmotes[j].platform = "twitch")
            => ~Intersects(emEmotes[i], emEmotes[j])

C34_EmoteTokensDisjoint ==
    (emDone /\ ProtocolDisjoint) =>
        \A i, j \in 1..Len(emEmotes) : i # j => ~Intersects(emEmotes[i], emEmotes[j])

\* a protocol emote, a 7TV token beside it, a 7TV code left out because it
\* lies on the protocol emote, and a BTTV code left out as a duplicate
C34_Witness ==
    /\ emDone
    /\ ProtocolDisjoint
    /\ emMessage = Kappa \o <<" ">> \o Lul
    /\ emEmoteMap = {Kappa, Lul}
    /\ emBttvEmoteMap = {Lul}
    /\ Len(emEmotes) = 2
    /\ emEmotes[1].platform = "twitch"
    /\ emEmotes[2].platform = "7tv"

(***************************************************************************)
(* C35: every line the IRC adapter handles pushes at most one message, and *)
(* every chat line of the form :user!user@host PRIVMSG #channel :text      *)
(* pushes exactly one, whatever its text holds.                            *)
(***************************************************************************)
C35_OneMessagePerChatLine ==
    \A i \in 1..Len(twPushed) :
        /\ twPushed[i] <= 1
        /\ twData[i] \in ChatLines => twPushed[i] = 1

(***************************************************************************)
(* C36: the promise connect() of a socket adapter returns settles in every *)
(* execution: once pending it is resolved or rejected at some later time,  *)
(* also when the socket opens after the 2 s timer has run or never opens   *)
(* and never reports an error.                                             *)
(***************************************************************************)
C36_ConnectSettles == (twPromise = "pending") ~> (twPromise \in {"resolved", "rejected"})

(***************************************************************************)
(* C37: one instance of a polling adapter has at most one poll request in  *)
(* flight and at most one timer pending at any time.                       *)
(***************************************************************************)
C37_OnePollAtATime == lgTimer <= 1 /\ lgInflight <= 1

(***************************************************************************)
(* C38: after any sequence of config changes, once every connect() that    *)
(* was called has settled, the adapters still connected are those of the   *)
(* latest config only: every adapter of a superseded config has been       *)
(* disconnected, also one whose connect() was in progress when the config  *)
(* changed.                                                                *)
(***************************************************************************)
AllSettled == \A r \in 1..Len(ccRuns) : ccRuns[r].pc = "done"
C38_OnlyLatestConnected ==
    AllSettled =>
        \A r \in 1..Len(ccRuns) : \A p \in Platforms :
            ccAdapters[r][p] = "connected" => r = Len(ccRuns)

(***************************************************************************)
(* C39: addMessage(m) and addMessages([m]) give the same view for every    *)
(* state of the store, also when the id of m is already stored and when    *)
(* timestamps are tied.                                                    *)
(***************************************************************************)
OtherCallResult ==
    IF stCall.kind = "addMessage" THEN AddMessagesFn(stBefore, stCall.batch)
    ELSE AddMessageFn(stBefore, stCall.batch[1])

C39_SingleSameAsBatch ==
    (stPc = "returned" /\ Len(stCall.batch) = 1) =>
        SliceLast(messages, RetentionSize) = SliceLast(OtherCallResult, RetentionSize)

(***************************************************************************)
(* C40: addMessages is idempotent: addMessages(B) applied a second time    *)
(* leaves the view as the first call left it, also when the window of 100  *)
(* overflows and timestamps are tied where entries are cut off.            *)
(***************************************************************************)
C40_AddMessagesIdempotent ==
    (stPc = "returned" /\ stCall.kind = "addMessages") =>
        SliceLast(AddMessagesFn(messages, stCall.batch), RetentionSize)
            = SliceLast(messages, RetentionSize)

====
